---- MODULE Spec2Model ----
(***************************************************************************)
(* Green Credits: report submission, streak, credit ledger and badges.     *)
(* Every request handler is modelled as one process position per await:    *)
(* a handler runs synchronously up to its next persistence call, and the   *)
(* persistence call itself (a find or a save) is one atomic database step  *)
(* that either succeeds or throws.                                         *)
(***************************************************************************)
EXTENDS Integers, Sequences, FiniteSets, TLC

\* ------------------------------------------------------------------ bounds
Users == {"u1", "u2"}
Procs == {1, 2}
MaxRequests == 3
MaxConcurrent == 2
MaxFailures == 1
MaxNow == 4
SlotsPerDay == 2
SeedStreak == 6
MaxZoneRequests == 1

\* ------------------------------------------------- program constants
REPORT_SUBMITTED == 10
REPORT_VERIFIED == 20
HIGH_QUALITY_REPORT == 30
FIRST_REPORT == 50
RESOLVED_BONUS == 20
FirstReportId == 1001
MinDescription == 10
LongDescription == 20
HighQuality == 80

BADGE_CRITERIA ==
  << [key |-> "first_report",     threshold |-> 1,    field |-> "reportCount"],
     [key |-> "eco_warrior",      threshold |-> 10,   field |-> "reportCount"],
     [key |-> "green_champion",   threshold |-> 50,   field |-> "reportCount"],
     [key |-> "planet_hero",      threshold |-> 100,  field |-> "reportCount"],
     [key |-> "credit_collector", threshold |-> 500,  field |-> "totalCredits"],
     [key |-> "elite_guardian",   threshold |-> 1000, field |-> "totalCredits"] >>

\* ------------------------------------------------------------- inputs
\* req.body.cost of POST /api/redeem is whatever number the client sends.
Costs == {-10, 20, 60}

\* req.body / req.file of POST /api/report: length of the description as sent
\* (0: no description) and after trim(), and presence of the optional fields.
\* A coordinate field of req.body is a string: absent or empty, not a
\* number, or a numeral (in hundredths of a degree).
NoCoordinate == [given |-> FALSE, numeral |-> FALSE, value |-> 0]

NotANumeral == [given |-> TRUE, numeral |-> FALSE, value |-> 0]

Numeral(v) == [given |-> TRUE, numeral |-> TRUE, value |-> v]

Input(len, trimmed, photo, coords, category, method) ==
  [descLen |-> len, trimLen |-> trimmed, photo |-> photo, coords |-> coords,
   category |-> category, method |-> method, address |-> << >>,
   lat |-> IF coords THEN Numeral(2712) ELSE NoCoordinate,
   lng |-> IF coords THEN Numeral(8196) ELSE NoCoordinate]

ReportInputs ==
  { Input(0,  0,  FALSE, FALSE, FALSE, FALSE),
    Input(12, 9,  TRUE,  TRUE,  TRUE,  TRUE),
    Input(20, 20, TRUE,  TRUE,  TRUE,  FALSE),
    Input(21, 10, TRUE,  TRUE,  FALSE, FALSE),
    Input(21, 21, TRUE,  TRUE,  TRUE,  TRUE) }

NoInput == Input(0, 0, FALSE, FALSE, FALSE, FALSE)

\* addresses a client sends (the empty one: no address)
Addresses ==
  { << >>,
    << "S", "t", "a", "t", "i", "o", "n", " ", "R", "o", "a", "d" >>,
    << "K", "A", "T", "R", "A" >>,
    << "W", "a", "z", "i", "r", "g", "a", "n", "j" >>,
    << "N", "a", "w", "a", "b", "g", "a", "n", "j", " ", "W", "e", "s", "t" >>,
    << "O", "l", "d", " ", "C", "i", "t", "y" >>,
    << "S", "o", "u", "t", "h", " ", "S", "t", "a", "t", "i", "o", "n" >>,
    << "N", "o", "r", "t", "h", "e", "a", "s", "t" >>,
    << "M", "a", "i", "n", " ", "M", "a", "r", "k", "e", "t" >> }

Latitudes ==
  { NoCoordinate, NotANumeral, Numeral(0), Numeral(2705), Numeral(2710), Numeral(2715),
    Numeral(2720), Numeral(9500) }

Longitudes ==
  { NoCoordinate, NotANumeral, Numeral(0), Numeral(8190), Numeral(8195), Numeral(8198),
    Numeral(8200), Numeral(20000) }

\* request bodies that differ in address and coordinates
ZoneInputs ==
  { [Input(21, 21, FALSE, lat.given /\ lng.given, FALSE, FALSE)
       EXCEPT !.address = a, !.lat = lat, !.lng = lng] :
      a \in Addresses, lat \in Latitudes, lng \in Longitudes }

Statuses == {"pending", "verified", "resolved"}

\* request bodies of reports from three zones
ViewInputs ==
  { [Input(21, 21, TRUE, TRUE, TRUE, TRUE) EXCEPT !.address = a] :
      a \in { << >>,
              << "S", "t", "a", "t", "i", "o", "n", " ", "R", "o", "a", "d" >>,
              << "K", "A", "T", "R", "A" >> } }

\* Admin documents: the super admin, the officers of the demo accounts and an
\* officer created with no zones
NoAdmin == [role |-> "none", assignedZones |-> {}]

Admins ==
  { [role |-> "super_admin", assignedZones |-> {}],
    [role |-> "zone_officer",
     assignedZones |-> {"Zone 1 - North Gonda", "Zone 2 - South Gonda"}],
    [role |-> "zone_officer", assignedZones |-> {"Zone 5 - Central Gonda"}],
    [role |-> "zone_officer", assignedZones |-> {}] }

MaxViewRequests == 3

\* addresses of reports stored before zones were assigned (the empty one: no
\* address)
FixAddresses ==
  { << >>,
    << "S", "t", "a", "t", "i", "o", "n", " ", "R", "o", "a", "d" >>,
    << "K", "o", "t", "w", "a", "l", "i" >>,
    << "T", "a", "r", "a", "b", "g", "a", "n", "j" >>,
    << "G", "a", "n", "d", "h", "i", " ", "N", "a", "g", "a", "r" >>,
    << "N", "a", "w", "a", "b", "g", "a", "n", "j" >> }

\* assignedZone of a stored report: absent ("none"), null, empty, or a zone
StoredZones == {"none", "null", "", "Zone 3 - East Gonda"}

MaxStored == 2
MaxFixRequests == 2

\* the workers that log in; the completions and the counter
\* totalReportsCompleted observed are those of LoggedInWorker
Workers == {"w1", "w2"}
LoggedInWorker == "w1"
MaxDeskRequests == 3

\* ------------------------------------------------------------ documents
NoDate == -1

NoUser == [exists |-> FALSE, currentStreak |-> 0, longestStreak |-> 0, lastReportDate |-> NoDate]

NewUser == [exists |-> TRUE, currentStreak |-> 0, longestStreak |-> 0, lastReportDate |-> NoDate]

NoCredit ==
  [exists |-> FALSE, totalCredits |-> 0, availableCredits |-> 0, badges |-> <<>>,
   transactions |-> <<>>, reportCount |-> 0, reportsVerified |-> 0]

Transaction(type, amount) == [type |-> type, amount |-> amount]

NewCredit ==
  [exists |-> TRUE, totalCredits |-> FIRST_REPORT, availableCredits |-> FIRST_REPORT,
   badges |-> <<>>, transactions |-> << Transaction("bonus", FIRST_REPORT) >>,
   reportCount |-> 0, reportsVerified |-> 0]

NoReport ==
  [userId |-> "none", reportId |-> 0, qualityScore |-> 0, status |-> "none",
   assignedZone |-> "none", address |-> << >>, assignedTo |-> "none"]

NoReq ==
  [kind |-> "none", user |-> "none", cost |-> 0, input |-> NoInput, rix |-> 0, status |-> "none",
   worker |-> "none", admin |-> NoAdmin]

NoLocals ==
  [reportId |-> 0, qualityScore |-> 0, creditsEarned |-> 0, streakBonus |-> 0,
   streakMultiplier |-> 1, newBadges |-> <<>>, oldStatus |-> "none", maxRead |-> 0,
   assignedZone |-> "none", query |-> [filtered |-> FALSE, zones |-> {}], todo |-> << >>]

NoResp ==
  [kind |-> "none", user |-> "none", sent |-> FALSE, success |-> FALSE, error |-> "", reportId |-> 0, creditsEarned |-> 0,
   baseCredits |-> 0, streakBonus |-> 0, streak |-> 0, streakMultiplier |-> 0,
   longestStreak |-> 0, qualityScore |-> 0, newBadges |-> <<>>, newBalance |-> 0,
   assignedZone |-> "none", listed |-> << >>, totalReports |-> 0, zoneStats |-> {},
   nextBadges |-> << >>]

ErrorResp(msg) == [NoResp EXCEPT !.sent = TRUE, !.error = msg]

OkResp == [NoResp EXCEPT !.sent = TRUE, !.success = TRUE]

VARIABLES
  users,      \* User collection: [Users -> user document]
  credits,    \* Credit collection: [Users -> credit account document]
  reports,    \* Report collection, in insertion order
  workerDone, \* Worker.totalReportsCompleted of the logged-in worker
  now,        \* wall clock, in slots of a day
  pc,         \* position of each request handler
  req,        \* request parameters of each handler
  loc,        \* local constants of each handler
  udoc,       \* user document held by a handler: [orig, cur]
  cdoc,       \* credit document held by a handler: [orig, cur]
  rdoc,       \* report document held by a handler: [orig, cur]
  resp,       \* answer to the handler's last request (with its kind and session user)
  nreq        \* counters: requests received, persistence calls that threw

vars == << users, credits, reports, workerDone, now, pc, req, loc, udoc, cdoc, rdoc, resp, nreq >>

db == << users, credits, reports, workerDone >>

\* ------------------------------------------------------- pure helpers
RECURSIVE SumAmounts(_)
SumAmounts(txs) ==
  IF txs = <<>> THEN 0 ELSE txs[1].amount + SumAmounts(Tail(txs))

SelectTypes(txs, types) == SelectSeq(txs, LAMBDA t : t.type \in types)

MaxOf(S) == CHOOSE x \in S : \A y \in S : y <= x

\* Report collection insert: reportId carries no unique index
InsertReport(coll, r) == Append(coll, r)

\* Report.findOne().sort({ reportId: -1 }): the largest persisted reportId, 0 for null
LastReportId ==
  IF reports = <<>> THEN 0 ELSE MaxOf({ reports[i].reportId : i \in 1..Len(reports) })

NextReportIdSame(last) == IF last # 0 THEN last ELSE FirstReportId

NextReportId(last) == IF last # 0 THEN last + 1 ELSE FirstReportId

QualityScoreFromThreshold(inp) ==
    (IF inp.photo THEN 30 ELSE 0)
  + (IF inp.coords THEN 30 ELSE 0)
  + (IF inp.descLen >= LongDescription THEN 20 ELSE 0)
  + (IF inp.category THEN 10 ELSE 0)
  + (IF inp.method THEN 10 ELSE 0)

QualityScore(inp) ==
    (IF inp.photo THEN 30 ELSE 0)
  + (IF inp.coords THEN 30 ELSE 0)
  + (IF inp.descLen > LongDescription THEN 20 ELSE 0)
  + (IF inp.category THEN 10 ELSE 0)
  + (IF inp.method THEN 10 ELSE 0)

BaseCreditsAbove(score) ==
  REPORT_SUBMITTED + (IF score > HighQuality THEN HIGH_QUALITY_REPORT ELSE 0)

BaseCredits(score) ==
  REPORT_SUBMITTED + (IF score >= HighQuality THEN HIGH_QUALITY_REPORT ELSE 0)

\* Date.setHours(0, 0, 0, 0)
Midnight(t) == t - (t % SlotsPerDay)

DaysDiffRaw(today, last) == (Midnight(today) - last) \div SlotsPerDay

DaysDiff(today, last) == (Midnight(today) - Midnight(last)) \div SlotsPerDay

StreakAfterSameDay(u, t) ==
  IF u.lastReportDate # NoDate
    THEN IF DaysDiff(t, u.lastReportDate) <= 1 THEN u.currentStreak + 1 ELSE 1
    ELSE 1

StreakAfter(u, t) ==
  IF u.lastReportDate # NoDate
    THEN IF DaysDiff(t, u.lastReportDate) = 1 THEN u.currentStreak + 1
         ELSE IF DaysDiff(t, u.lastReportDate) > 1 THEN 1
         ELSE u.currentStreak
    ELSE 1

UpdateStreakKeepLongest(u, t) ==
  LET s == StreakAfter(u, t) IN
  [u EXCEPT !.currentStreak = s, !.lastReportDate = t]

UpdateStreakDateOnChange(u, t) ==
  LET s == StreakAfter(u, t) IN
  [u EXCEPT !.currentStreak = s,
            !.longestStreak = IF s > u.longestStreak THEN s ELSE u.longestStreak,
            !.lastReportDate = IF s # u.currentStreak THEN t ELSE @]

UpdateStreak(u, t) ==
  LET s == StreakAfter(u, t) IN
  [u EXCEPT !.currentStreak = s,
            !.longestStreak = IF s > u.longestStreak THEN s ELSE u.longestStreak,
            !.lastReportDate = t]

StreakMultiplierAbove(streak) == IF streak > 7 THEN 3 ELSE IF streak > 3 THEN 2 ELSE 1

StreakMultiplier(streak) == IF streak >= 7 THEN 3 ELSE IF streak >= 3 THEN 2 ELSE 1

StreakBonus(base, mult) == base * (mult - 1)

HasBadge(badges, key) == \E i \in 1..Len(badges) : badges[i] = key

\* the counter of the account a catalog entry refers to
CounterOf(acc, b) ==
  IF b.field = "reportCount" THEN acc.reportCount ELSE acc.totalCredits

RECURSIVE EvalBadgesAbove(_, _)
EvalBadgesAbove(acc, i) ==
  IF i > Len(BADGE_CRITERIA) THEN acc
  ELSE LET b == BADGE_CRITERIA[i]
       IN IF ~HasBadge(acc.badges, b.key) /\ CounterOf(acc, b) > b.threshold
            THEN EvalBadgesAbove([acc EXCEPT !.badges = Append(@, b.key)], i + 1)
            ELSE EvalBadgesAbove(acc, i + 1)

RECURSIVE EvalBadges(_, _)
\* the badge loop from catalog index i on; returns the account with badges pushed
EvalBadges(acc, i) ==
  IF i > Len(BADGE_CRITERIA) THEN acc
  ELSE LET b == BADGE_CRITERIA[i]
           counter == IF b.field = "reportCount" THEN acc.reportCount ELSE acc.totalCredits
       IN IF ~HasBadge(acc.badges, b.key) /\ counter >= b.threshold
            THEN EvalBadges([acc EXCEPT !.badges = Append(@, b.key)], i + 1)
            ELSE EvalBadges(acc, i + 1)

PostEarnedNoEntry(acc, base) ==
  [acc EXCEPT !.totalCredits = @ + base,
              !.availableCredits = @ + base,
              !.reportCount = @ + 1]

PostEarned(acc, base) ==
  [acc EXCEPT !.totalCredits = @ + base,
              !.availableCredits = @ + base,
              !.reportCount = @ + 1,
              !.transactions = Append(@, Transaction("earned", base))]

PostBonus(acc, bonus, counted) ==
  [acc EXCEPT !.totalCredits = @ + bonus,
              !.availableCredits = @ + bonus,
              !.reportsVerified = @ + (IF counted THEN 1 ELSE 0),
              !.transactions = Append(@, Transaction("bonus", bonus))]

PostRedeemedTotal(acc, cost) ==
  [acc EXCEPT !.availableCredits = @ - cost,
              !.totalCredits = @ - cost,
              !.transactions = Append(@, Transaction("redeemed", 0 - cost))]

PostRedeemed(acc, cost) ==
  [acc EXCEPT !.availableCredits = @ - cost,
              !.transactions = Append(@, Transaction("redeemed", 0 - cost))]

AwardSubmissionOneEntry(acc, base, bonus) ==
  LET a1 == PostEarned(acc, base + bonus)
  IN EvalBadges(a1, 1)

\* the submission's ledger posting and badge loop on the loaded account
AwardSubmission(acc, base, bonus) ==
  LET a1 == PostEarned(acc, base)
      a2 == IF bonus > 0 THEN PostBonus(a1, bonus, FALSE) ELSE a1
  IN EvalBadges(a2, 1)

\* document.save() of an existing document sends only what the handler
\* changed: $set for a reassigned path, $push for appended array elements.
Pushed(orig, cur) == SubSeq(cur, Len(orig) + 1, Len(cur))

SetPath(stored, orig, cur) == IF cur # orig THEN cur ELSE stored

SaveUserDoc(stored, d) ==
  [stored EXCEPT !.currentStreak = SetPath(@, d.orig.currentStreak, d.cur.currentStreak),
                 !.longestStreak = SetPath(@, d.orig.longestStreak, d.cur.longestStreak),
                 !.lastReportDate = SetPath(@, d.orig.lastReportDate, d.cur.lastReportDate)]

SaveCreditDocInc(stored, d) ==
  [stored EXCEPT !.totalCredits = @ + (d.cur.totalCredits - d.orig.totalCredits),
                 !.availableCredits = @ + (d.cur.availableCredits - d.orig.availableCredits),
                 !.reportCount = @ + (d.cur.reportCount - d.orig.reportCount),
                 !.reportsVerified = @ + (d.cur.reportsVerified - d.orig.reportsVerified),
                 !.badges = @ \o Pushed(d.orig.badges, d.cur.badges),
                 !.transactions = @ \o Pushed(d.orig.transactions, d.cur.transactions)]

SaveCreditDoc(stored, d) ==
  [stored EXCEPT !.totalCredits = SetPath(@, d.orig.totalCredits, d.cur.totalCredits),
                 !.availableCredits = SetPath(@, d.orig.availableCredits, d.cur.availableCredits),
                 !.reportCount = SetPath(@, d.orig.reportCount, d.cur.reportCount),
                 !.reportsVerified = SetPath(@, d.orig.reportsVerified, d.cur.reportsVerified),
                 !.badges = @ \o Pushed(d.orig.badges, d.cur.badges),
                 !.transactions = @ \o Pushed(d.orig.transactions, d.cur.transactions)]

SaveReportDoc(stored, d) ==
  [stored EXCEPT !.status = SetPath(@, d.orig.status, d.cur.status),
                 !.assignedTo = SetPath(@, d.orig.assignedTo, d.cur.assignedTo),
                 !.assignedZone = SetPath(@, d.orig.assignedZone, d.cur.assignedZone)]

Doc(x) == [orig |-> x, cur |-> x]

FindCreditAny(u) ==
  IF \E v \in Users : credits[v].exists
    THEN credits[CHOOSE v \in Users : credits[v].exists]
    ELSE NoCredit

\* Credit.findOne({ userId })
FindCredit(u) == credits[u]

\* ------------------------------------------------------- zone detection
\* A string is the sequence of its characters.
UpperCase ==
  << "A", "B", "C", "D", "E", "F", "G", "H", "I", "J", "K", "L", "M",
     "N", "O", "P", "Q", "R", "S", "T", "U", "V", "W", "X", "Y", "Z" >>

LowerCase ==
  << "a", "b", "c", "d", "e", "f", "g", "h", "i", "j", "k", "l", "m",
     "n", "o", "p", "q", "r", "s", "t", "u", "v", "w", "x", "y", "z" >>

\* String.prototype.toLowerCase
toLowerCase(str) ==
  [i \in 1..Len(str) |->
     IF \E k \in 1..Len(UpperCase) : UpperCase[k] = str[i]
       THEN LowerCase[CHOOSE k \in 1..Len(UpperCase) : UpperCase[k] = str[i]]
       ELSE str[i]]

\* String.prototype.includes
includes(str, word) ==
  \E i \in 1..(Len(str) - Len(word) + 1) : SubSeq(str, i, i + Len(word) - 1) = word

\* the zones with their keywords, in the order of Object.entries
ZONE_CONFIG ==
  <<
     [name |-> "Zone 1 - North Gonda",
      keywords |-> <<
        << "s", "t", "a", "t", "i", "o", "n" >>,
        << "c", "i", "v", "i", "l", " ", "l", "i", "n", "e", "s" >>,
        << "r", "a", "i", "l", "w", "a", "y" >>,
        << "n", "e", "h", "r", "u" >>,
        << "g", "a", "n", "d", "h", "i", " ", "n", "a", "g", "a", "r" >>,
        << "n", "o", "r", "t", "h" >> >>],
     [name |-> "Zone 2 - South Gonda",
      keywords |-> <<
        << "c", "o", "l", "o", "n", "e", "l", "g", "a", "n", "j" >>,
        << "m", "a", "n", "k", "a", "p", "u", "r" >>,
        << "k", "a", "t", "r", "a" >>,
        << "k", "o", "t", "w", "a", "l", "i" >>,
        << "s", "o", "u", "t", "h" >> >>],
     [name |-> "Zone 3 - East Gonda",
      keywords |-> <<
        << "p", "a", "r", "a", "s", "p", "u", "r" >>,
        << "i", "t", "i", "a", "t", "h", "o", "k" >>,
        << "w", "a", "z", "i", "r", "g", "a", "n", "j" >>,
        << "t", "a", "r", "a", "b", "g", "a", "n", "j" >>,
        << "e", "a", "s", "t" >> >>],
     [name |-> "Zone 4 - West Gonda",
      keywords |-> <<
        << "b", "a", "h", "r", "a", "i", "c", "h" >>,
        << "j", "h", "i", "l", "a", "h", "i" >>,
        << "n", "a", "w", "a", "b", "g", "a", "n", "j" >>,
        << "w", "e", "s", "t" >> >>],
     [name |-> "Zone 5 - Central Gonda",
      keywords |-> <<
        << "c", "i", "t", "y", " ", "c", "e", "n", "t", "e", "r" >>,
        << "s", "a", "d", "a", "r" >>,
        << "c", "o", "l", "l", "e", "c", "t", "o", "r", "a", "t", "e" >>,
        << "o", "l", "d", " ", "c", "i", "t", "y" >>,
        << "c", "e", "n", "t", "e", "r" >>,
        << "c", "e", "n", "t", "r", "a", "l" >> >>] >>

DefaultZone == "Zone 5 - Central Gonda"

null == "null"

\* the zone matches the lower-cased address
KeywordIn(addressLower, config) ==
  \E k \in 1..Len(config.keywords) : includes(addressLower, config.keywords[k])

detectZoneLast(address) ==
  IF address = << >> THEN DefaultZone
  ELSE LET addressLower == toLowerCase(address)
           hits == { z \in 1..Len(ZONE_CONFIG) : KeywordIn(addressLower, ZONE_CONFIG[z]) }
       IN IF hits = {} THEN DefaultZone
          ELSE ZONE_CONFIG[CHOOSE z \in hits : \A y \in hits : y <= z].name

detectZone(address) ==
  IF address = << >> THEN DefaultZone
  ELSE LET addressLower == toLowerCase(address)
           hits == { z \in 1..Len(ZONE_CONFIG) : KeywordIn(addressLower, ZONE_CONFIG[z]) }
       IN IF hits = {} THEN DefaultZone
          ELSE ZONE_CONFIG[CHOOSE z \in hits : \A y \in hits : z <= y].name

\* A number as parseFloat returns it: NaN, or a value in hundredths of a degree.
NaN == [nan |-> TRUE, value |-> 0]

Number(v) == [nan |-> FALSE, value |-> v]

\* !x for a number
Falsy(x) == x.nan \/ x.value = 0

\* the thresholds 27.15, 27.10, 81.98, 81.95 in hundredths of a degree
LatNorth == 2715
LatSouth == 2710
LngEast == 8198
LngWest == 8195

detectZoneFromCoordinates(lat, lng) ==
  IF Falsy(lat) \/ Falsy(lng) THEN null
  ELSE IF lat.value > LatNorth THEN "Zone 1 - North Gonda"
  ELSE IF lat.value < LatSouth THEN "Zone 2 - South Gonda"
  ELSE IF lng.value > LngEast THEN "Zone 3 - East Gonda"
  ELSE IF lng.value < LngWest THEN "Zone 4 - West Gonda"
  ELSE "Zone 5 - Central Gonda"

parseFloat(str) == IF str.given /\ str.numeral THEN Number(str.value) ELSE NaN

AssignZoneUnchecked(address, lat, lng) ==
  IF address # << >> THEN detectZone(address)
  ELSE IF lat.given /\ lng.given
    THEN detectZoneFromCoordinates(parseFloat(lat), parseFloat(lng))
  ELSE DefaultZone

\* the zone assignment of the submission handler
AssignZone(address, lat, lng) ==
  IF address # << >> THEN detectZone(address)
  ELSE IF lat.given /\ lng.given
    THEN LET gpsZone == detectZoneFromCoordinates(parseFloat(lat), parseFloat(lng))
         IN IF gpsZone # null THEN gpsZone ELSE DefaultZone
  ELSE DefaultZone

\* ------------------------------------------------------------ seed state
\* A user who signed up and then submitted one report of the lowest quality
\* on each of SeedStreak consecutive days, the last of them at instant 0.
SeedUser ==
  [exists |-> TRUE, currentStreak |-> SeedStreak, longestStreak |-> SeedStreak,
   lastReportDate |-> 0]

RECURSIVE AwardDaily(_, _)
\* the account after the daily submissions that brought the streak from i to SeedStreak
AwardDaily(acc, i) ==
  IF i > SeedStreak THEN acc
  ELSE AwardDaily(AwardSubmission(acc, BaseCredits(0),
                                  StreakBonus(BaseCredits(0), StreakMultiplier(i))), i + 1)

SeedCredit == AwardDaily(NewCredit, 1)

\* the seeded account after SeedExtra more submissions of high quality on the
\* last day of the streak, and the verification of SeedVerified of its reports
SeedExtra == 3
SeedVerified == 4

RECURSIVE AwardHigh(_, _)
\* n submissions of high quality at the seeded streak
AwardHigh(acc, n) ==
  LET base == BaseCredits(HighQuality)
      bonus == StreakBonus(base, StreakMultiplier(SeedStreak))
  IN IF n = 0 THEN acc ELSE AwardHigh(AwardSubmission(acc, base, bonus), n - 1)

RECURSIVE Verify(_, _)
\* n verification bonuses
Verify(acc, n) ==
  IF n = 0 THEN acc ELSE Verify(PostBonus(acc, REPORT_VERIFIED, TRUE), n - 1)

RichCredit == Verify(AwardHigh(SeedCredit, SeedExtra), SeedVerified)

\* --------------------------------------------------------------- Init
\* The database at start: empty, or with every user freshly signed up (the
\* state that one successful signup per user leaves), or with user u1 on a
\* streak of SeedStreak days and the Report collection emptied since by
\* GET /api/admin/create-demo-reports.
Init ==
  /\ \/ /\ users = [u \in Users |-> NoUser]
        /\ credits = [u \in Users |-> NoCredit]
     \/ /\ users = [u \in Users |-> NewUser]
        /\ credits = [u \in Users |-> NewCredit]
     \/ /\ users = [u \in Users |-> IF u = "u1" THEN SeedUser ELSE NewUser]
        /\ credits = [u \in Users |-> IF u = "u1" THEN SeedCredit ELSE NewCredit]
  /\ reports = <<>>
  /\ workerDone = 0
  /\ now = 0
  /\ pc = [p \in Procs |-> "idle"]
  /\ req = [p \in Procs |-> NoReq]
  /\ loc = [p \in Procs |-> NoLocals]
  /\ udoc = [p \in Procs |-> Doc(NoUser)]
  /\ cdoc = [p \in Procs |-> Doc(NoCredit)]
  /\ rdoc = [p \in Procs |-> Doc(NoReport)]
  /\ resp = [p \in Procs |-> NoResp]
  /\ nreq = [total |-> 0, failed |-> 0]

\* The database with user u1 on a streak, its account one report short of ten
\* and less than two bonuses short of 500 credits, and user u2 not signed up.
BadgeInit ==
  /\ users = [u \in Users |-> IF u = "u1" THEN SeedUser ELSE NoUser]
  /\ credits = [u \in Users |-> IF u = "u1" THEN RichCredit ELSE NoCredit]
  /\ reports = <<>>
  /\ workerDone = 0
  /\ now = 0
  /\ pc = [p \in Procs |-> "idle"]
  /\ req = [p \in Procs |-> NoReq]
  /\ loc = [p \in Procs |-> NoLocals]
  /\ udoc = [p \in Procs |-> Doc(NoUser)]
  /\ cdoc = [p \in Procs |-> Doc(NoCredit)]
  /\ rdoc = [p \in Procs |-> Doc(NoReport)]
  /\ resp = [p \in Procs |-> NoResp]
  /\ nreq = [total |-> 0, failed |-> 0]

\* The database after the signup of both users and one submission of the
\* highest quality by user u1.
DeskUser == UpdateStreak(NewUser, 0)

DeskCredit == AwardSubmission(NewCredit, BaseCredits(100), 0)

DeskReport ==
  [NoReport EXCEPT !.userId = "u1", !.reportId = FirstReportId, !.qualityScore = 100,
                   !.status = "pending", !.assignedZone = DefaultZone]

DeskInit ==
  /\ users = [u \in Users |-> IF u = "u1" THEN DeskUser ELSE NewUser]
  /\ credits = [u \in Users |-> IF u = "u1" THEN DeskCredit ELSE NewCredit]
  /\ reports = << DeskReport >>
  /\ workerDone = 0
  /\ now = 0
  /\ pc = [p \in Procs |-> "idle"]
  /\ req = [p \in Procs |-> NoReq]
  /\ loc = [p \in Procs |-> NoLocals]
  /\ udoc = [p \in Procs |-> Doc(NoUser)]
  /\ cdoc = [p \in Procs |-> Doc(NoCredit)]
  /\ rdoc = [p \in Procs |-> Doc(NoReport)]
  /\ resp = [p \in Procs |-> NoResp]
  /\ nreq = [total |-> 0, failed |-> 0]

\* ------------------------------------------------------ handler plumbing
\* A handler reads no shared state before its first persistence call, so the
\* reception of a request and the completion of that first call are one step.
Busy == \E q \in Procs : pc[q] # "idle"

Received == [nreq EXCEPT !.total = @ + 1]

\* a persistence call throws
Throws ==
  /\ nreq.failed < MaxFailures
  /\ nreq' = [nreq EXCEPT !.failed = @ + 1]

\* Handlers are interchangeable, a request takes the first idle one.
\* A run of requests that may overlap is explored for MaxConcurrent requests,
\* a run of requests that do not for MaxRequests.
CanStart(p) ==
  /\ pc[p] = "idle"
  /\ \A q \in Procs : q < p => pc[q] # "idle"

\* Admission of a request for session user u ("none": an admin or a worker).
\* Mode "any": requests overlap freely; "solo": they do not overlap; "diff":
\* the requests in flight together belong to different users; "zone": the
\* submissions explored for their address and coordinates.
Admit(mode, u) ==
  /\ nreq.total < (CASE mode = "solo" -> MaxRequests
                      [] mode = "zone" -> MaxZoneRequests
                      [] mode = "desk" -> MaxDeskRequests
                      [] mode = "view" -> MaxViewRequests
                      [] mode = "fix" -> MaxFixRequests
                      [] OTHER -> MaxConcurrent)
  /\ mode \in {"solo", "fix"} => ~Busy
  /\ mode = "diff" => \A q \in Procs :
        pc[q] # "idle" => u # "none" /\ req[q].user # "none" /\ req[q].user # u

\* the handler of p goes on to its next await
Goto(p, r, next) ==
  /\ pc' = [pc EXCEPT ![p] = next]
  /\ req' = [req EXCEPT ![p] = r]
  /\ resp' = [resp EXCEPT ![p] = NoResp]

\* res.json(...): the handler of p answers and returns, its locals are gone
Respond(p, r, answer) ==
  /\ pc' = [pc EXCEPT ![p] = "idle"]
  /\ req' = [req EXCEPT ![p] = NoReq]
  /\ loc' = [loc EXCEPT ![p] = NoLocals]
  /\ udoc' = [udoc EXCEPT ![p] = Doc(NoUser)]
  /\ cdoc' = [cdoc EXCEPT ![p] = Doc(NoCredit)]
  /\ rdoc' = [rdoc EXCEPT ![p] = Doc(NoReport)]
  /\ resp' = [resp EXCEPT ![p] = [answer EXCEPT !.kind = r.kind, !.user = r.user]]

\* Time passes. The clock is read only by the streak update (new Date() after
\* User.findById), and time passing commutes with every other step, so it is
\* enough to let it pass while a handler is about to read the clock.
ClockRead == \E p \in Procs : pc[p] = "submitFindUser"

Tick ==
  /\ now < MaxNow
  /\ ClockRead
  /\ now' = now + 1
  /\ UNCHANGED << db, pc, req, loc, udoc, cdoc, rdoc, resp, nreq >>

\* ----------------------------------------------------- POST /api/signup
SignupRequest(u) == [NoReq EXCEPT !.kind = "signup", !.user = u]

\* User.findOne({ email })
SignupFind(p, u) ==
  /\ CanStart(p)
  /\ nreq' = Received
  /\ IF users[u].exists
       THEN Respond(p, SignupRequest(u), ErrorResp("Email already registered"))
       ELSE /\ Goto(p, SignupRequest(u), "signupSaveUser")
            /\ UNCHANGED << loc, udoc, cdoc, rdoc >>
  /\ UNCHANGED << db, now >>

\* user.save(); the email is a unique key
SignupSaveUser(p) ==
  /\ pc[p] = "signupSaveUser"
  /\ ~users[req[p].user].exists
  /\ users' = [users EXCEPT ![req[p].user] = NewUser]
  /\ Goto(p, req[p], "signupSaveCredit")
  /\ UNCHANGED << credits, reports, workerDone, now, loc, udoc, cdoc, rdoc, nreq >>

SignupSaveCreditDefaults(p) ==
  /\ pc[p] = "signupSaveCredit"
  /\ ~credits[req[p].user].exists
  /\ credits' = [credits EXCEPT ![req[p].user] = [NoCredit EXCEPT !.exists = TRUE]]
  /\ Respond(p, req[p], OkResp)
  /\ UNCHANGED << users, reports, workerDone, now, nreq >>

\* creditAccount.save(); userId is a unique key
SignupSaveCredit(p) ==
  /\ pc[p] = "signupSaveCredit"
  /\ ~credits[req[p].user].exists
  /\ credits' = [credits EXCEPT ![req[p].user] = NewCredit]
  /\ Respond(p, req[p], OkResp)
  /\ UNCHANGED << users, reports, workerDone, now, nreq >>

\* a persistence call of the signup handler throws (also on a duplicate key)
SignupFail(p) ==
  /\ pc[p] \in {"signupSaveUser", "signupSaveCredit"}
  /\ Throws
  /\ Respond(p, req[p], ErrorResp("Registration failed"))
  /\ UNCHANGED << db, now >>

\* ----------------------------------------------------- POST /api/report
SubmitRequest(u, inp) == [NoReq EXCEPT !.kind = "submit", !.user = u, !.input = inp]

SubmitFindLastUntrimmed(p, u, inp) ==
  /\ CanStart(p)
  /\ nreq' = Received
  /\ IF inp.descLen < MinDescription
       THEN Respond(p, SubmitRequest(u, inp),
                    ErrorResp("Description must be at least 10 characters"))
       ELSE /\ Goto(p, SubmitRequest(u, inp), "submitSaveReport")
            /\ loc' = [loc EXCEPT ![p].maxRead = LastReportId,
                                  ![p].reportId = NextReportId(LastReportId),
                                  ![p].qualityScore = QualityScore(inp),
                                  ![p].assignedZone = AssignZone(inp.address, inp.lat, inp.lng)]
            /\ UNCHANGED << udoc, cdoc, rdoc >>
  /\ UNCHANGED << db, now >>

\* validation, then Report.findOne().sort({ reportId: -1 })
SubmitFindLast(p, u, inp) ==
  /\ CanStart(p)
  /\ nreq' = Received
  /\ IF inp.descLen = 0 \/ inp.trimLen < MinDescription
       THEN Respond(p, SubmitRequest(u, inp),
                    ErrorResp("Description must be at least 10 characters"))
       ELSE /\ Goto(p, SubmitRequest(u, inp), "submitSaveReport")
            /\ loc' = [loc EXCEPT ![p].maxRead = LastReportId,
                                  ![p].reportId = NextReportId(LastReportId),
                                  ![p].qualityScore = QualityScore(inp),
                                  ![p].assignedZone = AssignZone(inp.address, inp.lat, inp.lng)]
            /\ UNCHANGED << udoc, cdoc, rdoc >>
  /\ UNCHANGED << db, now >>

SubmitSaveReportFresh(p) ==
  /\ pc[p] = "submitSaveReport"
  /\ reports' = InsertReport(reports, [userId |-> req[p].user,
                                       reportId |-> NextReportId(LastReportId),
                                       qualityScore |-> loc[p].qualityScore, status |-> "pending",
                                       assignedZone |-> loc[p].assignedZone,
                                       address |-> req[p].input.address,
                                       assignedTo |-> "none"])
  /\ loc' = [loc EXCEPT ![p].creditsEarned = BaseCredits(loc[p].qualityScore)]
  /\ Goto(p, req[p], "submitFindUser")
  /\ UNCHANGED << users, credits, workerDone, now, udoc, cdoc, rdoc, nreq >>

SubmitSaveReportAnswer(p) ==
  /\ pc[p] = "submitSaveReport"
  /\ reports' = InsertReport(reports, [userId |-> req[p].user, reportId |-> loc[p].reportId,
                                       qualityScore |-> loc[p].qualityScore, status |-> "pending",
                                       assignedZone |-> loc[p].assignedZone,
                                       address |-> req[p].input.address,
                                       assignedTo |-> "none"])
  /\ Respond(p, req[p], [OkResp EXCEPT !.reportId = loc[p].reportId,
                                       !.qualityScore = loc[p].qualityScore])
  /\ UNCHANGED << users, credits, workerDone, now, nreq >>

\* report.save()
SubmitSaveReport(p) ==
  /\ pc[p] = "submitSaveReport"
  /\ reports' = InsertReport(reports, [userId |-> req[p].user, reportId |-> loc[p].reportId,
                                       qualityScore |-> loc[p].qualityScore, status |-> "pending",
                                       assignedZone |-> loc[p].assignedZone,
                                       address |-> req[p].input.address,
                                       assignedTo |-> "none"])
  /\ loc' = [loc EXCEPT ![p].creditsEarned = BaseCredits(loc[p].qualityScore)]
  /\ Goto(p, req[p], "submitFindUser")
  /\ UNCHANGED << users, credits, workerDone, now, udoc, cdoc, rdoc, nreq >>

\* User.findById(userId), then the streak update on the loaded document; the
\* userId of a token need not be the id of a stored user, and reading a field
\* of the null result throws into the catch
SubmitFindUser(p) ==
  /\ pc[p] = "submitFindUser"
  /\ IF ~users[req[p].user].exists
       THEN Respond(p, req[p], ErrorResp("Cannot read properties of null"))
       ELSE /\ udoc' = [udoc EXCEPT ![p] = [orig |-> users[req[p].user],
                                            cur |-> UpdateStreak(users[req[p].user], now)]]
            /\ Goto(p, req[p], "submitSaveUser")
            /\ UNCHANGED << loc, cdoc, rdoc >>
  /\ UNCHANGED << db, now, nreq >>

\* user.save(), then the multiplier and the streak bonus
SubmitSaveUser(p) ==
  /\ pc[p] = "submitSaveUser"
  /\ users' = [users EXCEPT ![req[p].user] = SaveUserDoc(@, udoc[p])]
  /\ loc' = [loc EXCEPT
       ![p].streakMultiplier = StreakMultiplier(udoc[p].cur.currentStreak),
       ![p].streakBonus = StreakBonus(loc[p].creditsEarned,
                                      StreakMultiplier(udoc[p].cur.currentStreak))]
  /\ Goto(p, req[p], "submitFindCredit")
  /\ UNCHANGED << credits, reports, workerDone, now, udoc, cdoc, rdoc, nreq >>

SubmitFindCreditUpsert(p) ==
  /\ pc[p] = "submitFindCredit"
  /\ LET acc == IF FindCredit(req[p].user).exists
                  THEN FindCredit(req[p].user) ELSE [NoCredit EXCEPT !.exists = TRUE]
         new == AwardSubmission(acc, loc[p].creditsEarned, loc[p].streakBonus)
     IN /\ cdoc' = [cdoc EXCEPT ![p] = [orig |-> acc, cur |-> new]]
        /\ loc' = [loc EXCEPT ![p].newBadges = Pushed(acc.badges, new.badges)]
        /\ Goto(p, req[p], "submitSaveCredit")
        /\ UNCHANGED << udoc, rdoc >>
  /\ UNCHANGED << db, now, nreq >>

\* Credit.findOne({ userId }), then the ledger posting and the badge loop
SubmitFindCredit(p) ==
  /\ pc[p] = "submitFindCredit"
  /\ IF ~FindCredit(req[p].user).exists
       THEN Respond(p, req[p], ErrorResp("Credit account not found"))
       ELSE LET acc == FindCredit(req[p].user)
                new == AwardSubmission(acc, loc[p].creditsEarned, loc[p].streakBonus)
            IN /\ cdoc' = [cdoc EXCEPT ![p] = [orig |-> acc, cur |-> new]]
               /\ loc' = [loc EXCEPT ![p].newBadges = Pushed(acc.badges, new.badges)]
               /\ Goto(p, req[p], "submitSaveCredit")
               /\ UNCHANGED << udoc, rdoc >>
  /\ UNCHANGED << db, now, nreq >>

SubmitResultBase(p) ==
  [OkResp EXCEPT
     !.reportId = loc[p].reportId,
     !.assignedZone = loc[p].assignedZone,
     !.creditsEarned = loc[p].creditsEarned,
     !.baseCredits = loc[p].creditsEarned,
     !.streakBonus = loc[p].streakBonus,
     !.streak = udoc[p].cur.currentStreak,
     !.streakMultiplier = loc[p].streakMultiplier,
     !.longestStreak = udoc[p].cur.longestStreak,
     !.qualityScore = loc[p].qualityScore,
     !.newBadges = loc[p].newBadges]

SubmitResult(p) ==
  [OkResp EXCEPT
     !.reportId = loc[p].reportId,
     !.assignedZone = loc[p].assignedZone,
     !.creditsEarned = loc[p].creditsEarned + loc[p].streakBonus,
     !.baseCredits = loc[p].creditsEarned,
     !.streakBonus = loc[p].streakBonus,
     !.streak = udoc[p].cur.currentStreak,
     !.streakMultiplier = loc[p].streakMultiplier,
     !.longestStreak = udoc[p].cur.longestStreak,
     !.qualityScore = loc[p].qualityScore,
     !.newBadges = loc[p].newBadges]

\* creditAccount.save(), then the success result
SubmitSaveCredit(p) ==
  /\ pc[p] = "submitSaveCredit"
  /\ credits' = [credits EXCEPT ![req[p].user] = SaveCreditDoc(@, cdoc[p])]
  /\ Respond(p, req[p], SubmitResult(p))
  /\ UNCHANGED << users, reports, workerDone, now, nreq >>

SubmitFailUndo(p) ==
  /\ pc[p] \in {"submitSaveReport", "submitFindUser", "submitSaveUser",
                "submitFindCredit", "submitSaveCredit"}
  /\ Throws
  /\ Respond(p, req[p], ErrorResp("Failed to submit report"))
  /\ reports' = SelectSeq(reports, LAMBDA r : ~(r.reportId = loc[p].reportId
                                                /\ r.userId = req[p].user))
  /\ UNCHANGED << users, credits, workerDone, now >>

\* a persistence call of the submission handler throws; the catch answers 500
SubmitFailUncaught(p) ==
  /\ pc[p] \in {"submitSaveReport", "submitFindUser", "submitSaveUser",
                "submitFindCredit", "submitSaveCredit"}
  /\ Throws
  /\ pc' = [pc EXCEPT ![p] = "rejected"]
  /\ UNCHANGED << db, now, req, loc, udoc, cdoc, rdoc, resp >>

SubmitFail(p) ==
  /\ pc[p] \in {"submitSaveReport", "submitFindUser", "submitSaveUser",
                "submitFindCredit", "submitSaveCredit"}
  /\ Throws
  /\ Respond(p, req[p], ErrorResp("Failed to submit report"))
  /\ UNCHANGED << db, now >>

\* the persistence call the submission of p waits for returns or throws
SubmitSettles(p) ==
  \/ SubmitSaveReport(p)
  \/ SubmitFindUser(p)
  \/ SubmitSaveUser(p)
  \/ SubmitFindCredit(p)
  \/ SubmitSaveCredit(p)
  \/ SubmitFail(p)

\* ----------------------------------------------------- POST /api/redeem
RedeemRequest(u, cost) == [NoReq EXCEPT !.kind = "redeem", !.user = u, !.cost = cost]

InsufficientOfTotal(acc, cost) == acc.totalCredits < cost

\* the insufficient-credits test of the redeem handler
Insufficient(acc, cost) == acc.availableCredits < cost

\* Credit.findOne({ userId }), the balance test, then the debit on the document
RedeemFind(p, u, cost) ==
  /\ CanStart(p)
  /\ users[u].exists
  /\ nreq' = Received
  /\ LET acc == FindCredit(u) IN
       IF ~acc.exists
         THEN Respond(p, RedeemRequest(u, cost), ErrorResp("Credit account not found"))
       ELSE IF Insufficient(acc, cost)
         THEN Respond(p, RedeemRequest(u, cost), ErrorResp("Insufficient credits"))
       ELSE /\ cdoc' = [cdoc EXCEPT ![p] = [orig |-> acc, cur |-> PostRedeemed(acc, cost)]]
            /\ Goto(p, RedeemRequest(u, cost), "redeemSave")
            /\ UNCHANGED << loc, udoc, rdoc >>
  /\ UNCHANGED << db, now >>

\* creditAccount.save(), then the success result with the new balance
RedeemSave(p) ==
  /\ pc[p] = "redeemSave"
  /\ credits' = [credits EXCEPT ![req[p].user] = SaveCreditDoc(@, cdoc[p])]
  /\ Respond(p, req[p], [OkResp EXCEPT !.newBalance = cdoc[p].cur.availableCredits])
  /\ UNCHANGED << users, reports, workerDone, now, nreq >>

RedeemFail(p) ==
  /\ pc[p] \in {"redeemSave"}
  /\ Throws
  /\ Respond(p, req[p], ErrorResp("Redemption failed"))
  /\ UNCHANGED << db, now >>

\* ------------------------------------- POST /api/admin/reports/:id/status
AdminRequest(i, status) == [NoReq EXCEPT !.kind = "status", !.rix = i, !.status = status]

\* the reports a request can name: index 0 is an id that matches no report
ReportIndexes == 0..Len(reports)

\* the verification bonus is due on the change pending -> verified
BonusDue(oldStatus, status) == oldStatus = "pending" /\ status = "verified"

\* Report.findById(id), then the status change on the loaded document
AdminFindReport(p, i, status) ==
  /\ CanStart(p)
  /\ nreq' = Received
  /\ IF i = 0
       THEN Respond(p, AdminRequest(i, status), ErrorResp("Report not found"))
       ELSE /\ rdoc' = [rdoc EXCEPT ![p] = [orig |-> reports[i],
                                            cur |-> [reports[i] EXCEPT !.status = status]]]
            /\ loc' = [loc EXCEPT ![p].oldStatus = reports[i].status]
            /\ Goto(p, AdminRequest(i, status), "adminSaveReport")
            /\ UNCHANGED << udoc, cdoc >>
  /\ UNCHANGED << db, now >>

\* report.save()
AdminSaveReport(p) ==
  /\ pc[p] = "adminSaveReport"
  /\ reports' = [reports EXCEPT ![req[p].rix] = SaveReportDoc(@, rdoc[p])]
  /\ IF BonusDue(loc[p].oldStatus, req[p].status)
       THEN /\ Goto(p, req[p], "adminFindCredit")
            /\ UNCHANGED << loc, udoc, cdoc, rdoc >>
       ELSE Respond(p, req[p], OkResp)
  /\ UNCHANGED << users, credits, workerDone, now, nreq >>

\* Credit.findOne({ userId: report.userId }), then the bonus on the document
AdminFindCredit(p) ==
  /\ pc[p] = "adminFindCredit"
  /\ LET acc == FindCredit(rdoc[p].cur.userId) IN
       IF acc.exists
         THEN /\ cdoc' = [cdoc EXCEPT ![p] = [orig |-> acc,
                                              cur |-> PostBonus(acc, REPORT_VERIFIED, TRUE)]]
              /\ Goto(p, req[p], "adminSaveCredit")
              /\ UNCHANGED << loc, udoc, rdoc >>
         ELSE Respond(p, req[p], OkResp)
  /\ UNCHANGED << db, now, nreq >>

\* creditAccount.save()
AdminSaveCredit(p) ==
  /\ pc[p] = "adminSaveCredit"
  /\ credits' = [credits EXCEPT ![rdoc[p].cur.userId] = SaveCreditDoc(@, cdoc[p])]
  /\ Respond(p, req[p], OkResp)
  /\ UNCHANGED << users, reports, workerDone, now, nreq >>

AdminFail(p) ==
  /\ pc[p] \in {"adminSaveReport", "adminFindCredit", "adminSaveCredit"}
  /\ Throws
  /\ Respond(p, req[p], ErrorResp("Failed to update report"))
  /\ UNCHANGED << db, now >>

\* ------------------------------------ POST /api/worker/reports/:id/complete
WorkerRequest(i) ==
  [NoReq EXCEPT !.kind = "complete", !.rix = i, !.status = "resolved", !.worker = LoggedInWorker]

\* Report.findById(req.params.id) for a logged-in worker
WorkerFindReport(p, i) ==
  /\ CanStart(p)
  /\ nreq' = Received
  /\ IF i = 0
       THEN Respond(p, WorkerRequest(i), ErrorResp("Report not found"))
       ELSE /\ rdoc' = [rdoc EXCEPT ![p] = [orig |-> reports[i],
                                            cur |-> [reports[i] EXCEPT !.status = "resolved"]]]
            /\ Goto(p, WorkerRequest(i), "workerSaveReport")
            /\ UNCHANGED << loc, udoc, cdoc >>
  /\ UNCHANGED << db, now >>

\* report.save()
WorkerSaveReport(p) ==
  /\ pc[p] = "workerSaveReport"
  /\ reports' = [reports EXCEPT ![req[p].rix] = SaveReportDoc(@, rdoc[p])]
  /\ Goto(p, req[p], "workerUpdateStats")
  /\ UNCHANGED << users, credits, workerDone, now, loc, udoc, cdoc, rdoc, nreq >>

\* Worker.findByIdAndUpdate(workerId, { $inc: { totalReportsCompleted: 1 } })
WorkerUpdateStats(p) ==
  /\ pc[p] = "workerUpdateStats"
  /\ workerDone' = workerDone + 1
  /\ Goto(p, req[p], "workerFindCredit")
  /\ UNCHANGED << users, credits, reports, now, loc, udoc, cdoc, rdoc, nreq >>

\* Credit.findOne({ userId: report.userId }), then the bonus on the document
WorkerFindCredit(p) ==
  /\ pc[p] = "workerFindCredit"
  /\ LET acc == FindCredit(rdoc[p].cur.userId) IN
       IF acc.exists
         THEN /\ cdoc' = [cdoc EXCEPT ![p] = [orig |-> acc,
                                              cur |-> PostBonus(acc, RESOLVED_BONUS, TRUE)]]
              /\ Goto(p, req[p], "workerSaveCredit")
              /\ UNCHANGED << loc, udoc, rdoc >>
         ELSE Respond(p, req[p], OkResp)
  /\ UNCHANGED << db, now, nreq >>

\* creditAccount.save()
WorkerSaveCredit(p) ==
  /\ pc[p] = "workerSaveCredit"
  /\ credits' = [credits EXCEPT ![rdoc[p].cur.userId] = SaveCreditDoc(@, cdoc[p])]
  /\ Respond(p, req[p], OkResp)
  /\ UNCHANGED << users, reports, workerDone, now, nreq >>

WorkerFail(p) ==
  /\ pc[p] \in {"workerSaveReport", "workerUpdateStats", "workerFindCredit", "workerSaveCredit"}
  /\ Throws
  /\ Respond(p, req[p], ErrorResp("Failed to complete report"))
  /\ UNCHANGED << db, now >>

\* -------------------------------------- POST /api/worker/reports/:id/accept
AcceptRequest(w, i) ==
  [NoReq EXCEPT !.kind = "accept", !.rix = i, !.status = "in-progress", !.worker = w]

\* Report.findById(req.params.id) for the logged-in worker w
WorkerAcceptFind(p, w, i) ==
  /\ CanStart(p)
  /\ nreq' = Received
  /\ IF i = 0
       THEN Respond(p, AcceptRequest(w, i), ErrorResp("Report not found"))
       ELSE /\ rdoc' = [rdoc EXCEPT ![p] =
                         [orig |-> reports[i],
                          cur |-> [reports[i] EXCEPT !.status = "in-progress",
                                                     !.assignedTo = w]]]
            /\ Goto(p, AcceptRequest(w, i), "workerAcceptSave")
            /\ UNCHANGED << loc, udoc, cdoc >>
  /\ UNCHANGED << db, now >>

\* report.save()
WorkerAcceptSave(p) ==
  /\ pc[p] = "workerAcceptSave"
  /\ reports' = [reports EXCEPT ![req[p].rix] = SaveReportDoc(@, rdoc[p])]
  /\ Respond(p, req[p], OkResp)
  /\ UNCHANGED << users, credits, workerDone, now, nreq >>

WorkerAcceptFail(p) ==
  /\ pc[p] = "workerAcceptSave"
  /\ Throws
  /\ Respond(p, req[p], ErrorResp("Failed to accept report"))
  /\ UNCHANGED << db, now >>

\* ------------------------------------------------ GET /api/admin/reports
ZoneQueryAll(admin) == [filtered |-> FALSE, zones |-> {}]

\* the query of the listing and the statistics: officers with zones see
\* their zones, everybody else every report
ZoneQuery(admin) ==
  IF admin.role = "zone_officer" /\ admin.assignedZones # {}
    THEN [filtered |-> TRUE, zones |-> admin.assignedZones]
    ELSE [filtered |-> FALSE, zones |-> {}]

Matches(query, r) == query.filtered => r.assignedZone \in query.zones

\* Report.find(query)
FindReports(query) == SelectSeq(reports, LAMBDA r : Matches(query, r))

ListRequest(a) == [NoReq EXCEPT !.kind = "list", !.admin = a]

\* Admin.findById(req.session.adminId), then the query
AdminListFind(p, a) ==
  /\ CanStart(p)
  /\ nreq' = Received
  /\ loc' = [loc EXCEPT ![p].query = ZoneQuery(a)]
  /\ Goto(p, ListRequest(a), "adminListReports")
  /\ UNCHANGED << db, now, udoc, cdoc, rdoc >>

\* Report.find(query), then the answer
AdminListReports(p) ==
  /\ pc[p] = "adminListReports"
  /\ Respond(p, req[p], [OkResp EXCEPT !.listed = FindReports(loc[p].query)])
  /\ UNCHANGED << db, now, nreq >>

AdminListFail(p) ==
  /\ pc[p] = "adminListReports"
  /\ Throws
  /\ Respond(p, req[p], ErrorResp("Failed to fetch reports"))
  /\ UNCHANGED << db, now >>

\* -------------------------------------------------- GET /api/admin/stats
StatsRequest(a) == [NoReq EXCEPT !.kind = "stats", !.admin = a]

\* Admin.findById(req.session.adminId), then the query
AdminStatsFind(p, a) ==
  /\ CanStart(p)
  /\ nreq' = Received
  /\ loc' = [loc EXCEPT ![p].query = ZoneQuery(a)]
  /\ Goto(p, StatsRequest(a), "adminStatsCount")
  /\ UNCHANGED << db, now, udoc, cdoc, rdoc >>

\* Report.countDocuments(query) and the counts by status
AdminStatsCount(p) ==
  /\ pc[p] = "adminStatsCount"
  /\ loc' = [loc EXCEPT ![p].maxRead = Len(FindReports(loc[p].query))]
  /\ Goto(p, req[p], "adminStatsZones")
  /\ UNCHANGED << db, now, udoc, cdoc, rdoc, nreq >>

\* Report.aggregate([{ $match }, { $group: { _id: '$assignedZone' } }]), then the answer
AdminStatsZones(p) ==
  /\ pc[p] = "adminStatsZones"
  /\ LET found == FindReports(loc[p].query)
     IN Respond(p, req[p],
                [OkResp EXCEPT !.totalReports = loc[p].maxRead,
                               !.zoneStats = { found[i].assignedZone : i \in 1..Len(found) }])
  /\ UNCHANGED << db, now, nreq >>

AdminStatsFail(p) ==
  /\ pc[p] \in {"adminStatsCount", "adminStatsZones"}
  /\ Throws
  /\ Respond(p, req[p], ErrorResp("Failed to fetch stats"))
  /\ UNCHANGED << db, now >>

\* ------------------------------------------------------ GET /api/credits
ProgressUncapped(acc, b) == (100 * CounterOf(acc, b)) \div b.threshold

\* Math.min(100, (creditAccount[badge.field] / badge.threshold) * 100)
Progress(acc, b) ==
  LET percent == (100 * CounterOf(acc, b)) \div b.threshold
  IN IF percent > 100 THEN 100 ELSE percent

\* BADGE_CRITERIA.filter(not held).map(badge with its progress)
NextBadges(acc) ==
  LET open == SelectSeq(BADGE_CRITERIA, LAMBDA b : ~HasBadge(acc.badges, b.key))
  IN [i \in 1..Len(open) |-> [key |-> open[i].key, progress |-> Progress(acc, open[i])]]

CreditsRequest(u) == [NoReq EXCEPT !.kind = "credits", !.user = u]

\* Credit.findOne({ userId }), then the answer
CreditsView(p, u) ==
  /\ CanStart(p)
  /\ users[u].exists
  /\ nreq' = Received
  /\ LET acc == FindCredit(u) IN
       IF ~acc.exists
         THEN Respond(p, CreditsRequest(u), ErrorResp("Credit account not found"))
         ELSE Respond(p, CreditsRequest(u),
                      [OkResp EXCEPT !.nextBadges = NextBadges(acc),
                                     !.newBalance = acc.availableCredits])
  /\ UNCHANGED << db, now >>

\* ------------------------------- GET /api/fix-all-zones and fix-zones.js
\* the if / else if chain on addr.includes(...); Table is a sequence of
\* [zone, keywords]
RECURSIVE FirstIncluding(_, _, _)
FirstIncluding(Table, addr, i) ==
  IF i > Len(Table) THEN DefaultZone
  ELSE IF \E k \in 1..Len(Table[i].keywords) : includes(addr, Table[i].keywords[k])
         THEN Table[i].zone
         ELSE FirstIncluding(Table, addr, i + 1)

RouteKeywords ==
  << [zone |-> "Zone 1 - North Gonda",
      keywords |-> << << "s","t","a","t","i","o","n" >>, << "r","a","i","l","w","a","y" >>,
                      << "c","i","v","i","l"," ","l","i","n","e","s" >>,
                      << "n","e","h","r","u" >> >>],
     [zone |-> "Zone 2 - South Gonda",
      keywords |-> << << "c","o","l","o","n","e","l","g","a","n","j" >>,
                      << "m","a","n","k","a","p","u","r" >>, << "k","a","t","r","a" >> >>],
     [zone |-> "Zone 3 - East Gonda",
      keywords |-> << << "p","a","r","a","s","p","u","r" >>,
                      << "i","t","i","a","t","h","o","k" >>,
                      << "w","a","z","i","r","g","a","n","j" >> >>],
     [zone |-> "Zone 4 - West Gonda",
      keywords |-> << << "b","a","h","r","a","i","c","h" >>, << "j","h","i","l","a","h","i" >>,
                      << "n","a","w","a","b","g","a","n","j" >> >>] >>

ScriptKeywords ==
  << [zone |-> "Zone 1 - North Gonda",
      keywords |-> << << "s","t","a","t","i","o","n" >>, << "r","a","i","l","w","a","y" >>,
                      << "c","i","v","i","l"," ","l","i","n","e","s" >>,
                      << "n","e","h","r","u" >> >>],
     [zone |-> "Zone 2 - South Gonda",
      keywords |-> << << "c","o","l","o","n","e","l","g","a","n","j" >>,
                      << "m","a","n","k","a","p","u","r" >>, << "k","a","t","r","a" >>,
                      << "k","o","t","w","a","l","i" >> >>],
     [zone |-> "Zone 3 - East Gonda",
      keywords |-> << << "p","a","r","a","s","p","u","r" >>,
                      << "i","t","i","a","t","h","o","k" >>,
                      << "w","a","z","i","r","g","a","n","j" >>,
                      << "t","a","r","a","b","g","a","n","j" >> >>],
     [zone |-> "Zone 4 - West Gonda",
      keywords |-> << << "b","a","h","r","a","i","c","h" >>, << "j","h","i","l","a","h","i" >>,
                      << "n","a","w","a","b","g","a","n","j" >> >>] >>

\* the zone the backfill gives a report: variant "route" or "script"
FixZone(variant, address) ==
  IF address = << >> THEN DefaultZone
  ELSE FirstIncluding(IF variant = "route" THEN RouteKeywords ELSE ScriptKeywords,
                      toLowerCase(address), 1)

\* $or: [{ assignedZone: { $exists: false } }, { assignedZone: null }, { assignedZone: '' }]
LacksZone(r) == r.assignedZone \in {"none", "null", ""}

RECURSIVE LoadAll(_)
LoadAll(i) ==
  IF i > Len(reports) THEN << >>
  ELSE << [ix |-> i, doc |-> reports[i]] >> \o LoadAll(i + 1)

RECURSIVE LoadLacking(_)
\* Report.find(...): the documents selected, from index i on
LoadLacking(i) ==
  IF i > Len(reports) THEN << >>
  ELSE IF LacksZone(reports[i])
         THEN << [ix |-> i, doc |-> reports[i]] >> \o LoadLacking(i + 1)
         ELSE LoadLacking(i + 1)

FixRequest(variant) == [NoReq EXCEPT !.kind = "fix", !.status = variant]

\* Report.find(...) of the backfill; with nothing to fix the route answers
FixFind(p, variant) ==
  /\ CanStart(p)
  /\ nreq' = Received
  /\ LET todo == LoadLacking(1) IN
       IF todo = << >> /\ variant = "route"
         THEN Respond(p, FixRequest(variant), OkResp)
         ELSE /\ loc' = [loc EXCEPT ![p].todo = todo]
              /\ Goto(p, FixRequest(variant), IF todo = << >> THEN "fixVerify" ELSE "fixSave")
              /\ UNCHANGED << udoc, cdoc, rdoc >>
  /\ UNCHANGED << db, now >>

\* report.assignedZone = zone; report.save() for the next document of the
\* loop; after the last one the route answers and the script goes on
FixSave(p) ==
  /\ pc[p] = "fixSave"
  /\ LET next == Head(loc[p].todo)
         fixed == [next.doc EXCEPT !.assignedZone = FixZone(req[p].status, next.doc.address)]
     IN /\ reports' = [reports EXCEPT ![next.ix] =
                         SaveReportDoc(@, [orig |-> next.doc, cur |-> fixed])]
        /\ IF Tail(loc[p].todo) # << >>
             THEN /\ loc' = [loc EXCEPT ![p].todo = Tail(@)]
                  /\ Goto(p, req[p], "fixSave")
                  /\ UNCHANGED << udoc, cdoc, rdoc >>
             ELSE IF req[p].status = "route"
               THEN Respond(p, req[p], OkResp)
               ELSE /\ loc' = [loc EXCEPT ![p].todo = << >>]
                    /\ Goto(p, req[p], "fixVerify")
                    /\ UNCHANGED << udoc, cdoc, rdoc >>
  /\ UNCHANGED << users, credits, workerDone, now, nreq >>

\* the script's Report.find({}) and process.exit(0)
FixVerify(p) ==
  /\ pc[p] = "fixVerify"
  /\ Respond(p, req[p], OkResp)
  /\ UNCHANGED << db, now, nreq >>

\* a persistence call of the backfill throws: status 500, process.exit(1)
FixFail(p) ==
  /\ pc[p] \in {"fixSave", "fixVerify"}
  /\ Throws
  /\ Respond(p, req[p], ErrorResp("fix zones"))
  /\ UNCHANGED << db, now >>

\* --------------------------------- GET /api/admin/create-demo-reports
DemoRequest == [NoReq EXCEPT !.kind = "demo"]

\* Report.deleteMany({})
DemoDeleteMany(p) ==
  /\ CanStart(p)
  /\ nreq' = Received
  /\ reports' = << >>
  /\ Goto(p, DemoRequest, "demoCreate")
  /\ UNCHANGED << users, credits, workerDone, now, loc, udoc, cdoc, rdoc >>

\* Report.create([]): nothing is inserted
DemoCreate(p) ==
  /\ pc[p] = "demoCreate"
  /\ Respond(p, req[p], OkResp)
  /\ UNCHANGED << db, now, nreq >>

DemoFail(p) ==
  /\ pc[p] = "demoCreate"
  /\ Throws
  /\ Respond(p, req[p], ErrorResp("demo reports"))
  /\ UNCHANGED << db, now >>

\* ------------------------------------------------------------- Next
Step(p, mode) ==
  \/ \E u \in Users : Admit(mode, u) /\ SignupFind(p, u)
  \/ SignupSaveUser(p)
  \/ SignupSaveCredit(p)
  \/ SignupFail(p)
  \/ \E u \in Users, inp \in ReportInputs : Admit(mode, u) /\ SubmitFindLast(p, u, inp)
  \/ SubmitSaveReport(p)
  \/ SubmitFindUser(p)
  \/ SubmitSaveUser(p)
  \/ SubmitFindCredit(p)
  \/ SubmitSaveCredit(p)
  \/ SubmitFail(p)
  \/ \E u \in Users, c \in Costs : Admit(mode, u) /\ RedeemFind(p, u, c)
  \/ RedeemSave(p)
  \/ RedeemFail(p)
  \/ \E i \in ReportIndexes, st \in Statuses : Admit(mode, "none") /\ AdminFindReport(p, i, st)
  \/ AdminSaveReport(p)
  \/ AdminFindCredit(p)
  \/ AdminSaveCredit(p)
  \/ AdminFail(p)
  \/ \E i \in ReportIndexes : Admit(mode, "none") /\ WorkerFindReport(p, i)
  \/ WorkerSaveReport(p)
  \/ WorkerUpdateStats(p)
  \/ WorkerFindCredit(p)
  \/ WorkerSaveCredit(p)
  \/ WorkerFail(p)

Next == Tick \/ \E p \in Procs : Step(p, "any")

SeqNext == Tick \/ \E p \in Procs : Step(p, "solo")

DiffNext == Tick \/ \E p \in Procs : Step(p, "diff")

\* submissions with every address and every pair of coordinates
ZoneStep(p) ==
  \/ \E u \in Users : Admit("zone", u) /\ \E inp \in ZoneInputs : SubmitFindLast(p, u, inp)
  \/ SubmitSaveReport(p)
  \/ SubmitFindUser(p)
  \/ SubmitSaveUser(p)
  \/ SubmitFindCredit(p)
  \/ SubmitSaveCredit(p)
  \/ SubmitFail(p)

ZoneNext == Tick \/ \E p \in Procs : ZoneStep(p)

\* submissions from three zones, the listings and statistics of officers and
\* the credits view
ViewStep(p) ==
  \/ \E u \in Users : Admit("view", u) /\ \E inp \in ViewInputs : SubmitFindLast(p, u, inp)
  \/ SubmitSettles(p)
  \/ \E a \in Admins : Admit("view", "none") /\ AdminListFind(p, a)
  \/ AdminListReports(p)
  \/ AdminListFail(p)
  \/ \E a \in Admins : Admit("view", "none") /\ AdminStatsFind(p, a)
  \/ AdminStatsCount(p)
  \/ AdminStatsZones(p)
  \/ AdminStatsFail(p)
  \/ \E u \in Users : Admit("view", u) /\ CreditsView(p, u)

ViewNext == \E p \in Procs : ViewStep(p)

\* runs of the backfill, one at a time
FixStep(p) ==
  \/ \E variant \in {"route", "script"} : Admit("fix", "none") /\ FixFind(p, variant)
  \/ FixSave(p)
  \/ FixVerify(p)
  \/ FixFail(p)

FixNext == \E p \in Procs : FixStep(p)

\* the requests of officers and workers on the reports there are
DeskStep(p) ==
  \/ \E i \in ReportIndexes, st \in Statuses : Admit("desk", "none") /\ AdminFindReport(p, i, st)
  \/ AdminSaveReport(p)
  \/ AdminFindCredit(p)
  \/ AdminSaveCredit(p)
  \/ AdminFail(p)
  \/ \E i \in ReportIndexes, w \in Workers : Admit("desk", "none") /\ WorkerAcceptFind(p, w, i)
  \/ WorkerAcceptSave(p)
  \/ WorkerAcceptFail(p)
  \/ \E i \in ReportIndexes : Admit("desk", "none") /\ WorkerFindReport(p, i)
  \/ WorkerSaveReport(p)
  \/ WorkerUpdateStats(p)
  \/ WorkerFindCredit(p)
  \/ WorkerSaveCredit(p)
  \/ WorkerFail(p)

DeskNext == \E p \in Procs : DeskStep(p)

\* submissions that overlap freely
LiveStep(p) ==
  \/ \E u \in Users, inp \in ReportInputs : Admit("any", u) /\ SubmitFindLast(p, u, inp)
  \/ SubmitSettles(p)

\* the clock stands still: no step of a submission waits for it
LiveNext == \E p \in Procs : LiveStep(p)

\* submissions and the demo reset, one request at a time
DemoStep(p) ==
  \/ \E u \in Users, inp \in ReportInputs : Admit("solo", u) /\ SubmitFindLast(p, u, inp)
  \/ SubmitSettles(p)
  \/ Admit("solo", "none") /\ DemoDeleteMany(p)
  \/ DemoCreate(p)
  \/ DemoFail(p)

DemoNext == \E p \in Procs : DemoStep(p)

\* requests overlap freely
Spec == Init /\ [][Next]_vars

\* requests do not overlap in time
SeqSpec == Init /\ [][SeqNext]_vars

\* only requests of different users overlap
DiffSpec == Init /\ [][DiffNext]_vars

\* submissions that differ in address and coordinates
ZoneSpec == Init /\ [][ZoneNext]_vars

\* overlapping submissions whose persistence calls all return or throw
LiveSpec ==
  /\ Init
  /\ [][LiveNext]_vars
  /\ \A p \in Procs : WF_vars(SubmitSettles(p))

\* the account of u1 after two more verifications: over 500 credits with no
\* 'credit_collector' badge, which only a submission grants
ViewCredit == Verify(RichCredit, 2)

ViewInit ==
  /\ users = [u \in Users |-> IF u = "u1" THEN SeedUser ELSE NewUser]
  /\ credits = [u \in Users |-> IF u = "u1" THEN ViewCredit ELSE NewCredit]
  /\ reports = <<>>
  /\ workerDone = 0
  /\ now = 0
  /\ pc = [p \in Procs |-> "idle"]
  /\ req = [p \in Procs |-> NoReq]
  /\ loc = [p \in Procs |-> NoLocals]
  /\ udoc = [p \in Procs |-> Doc(NoUser)]
  /\ cdoc = [p \in Procs |-> Doc(NoCredit)]
  /\ rdoc = [p \in Procs |-> Doc(NoReport)]
  /\ resp = [p \in Procs |-> NoResp]
  /\ nreq = [total |-> 0, failed |-> 0]

\* officers list and count the reports users submit from three zones
ViewSpec == ViewInit /\ [][ViewNext]_vars

\* reports of user u1 stored with and without a zone
StoredReports ==
  { [NoReport EXCEPT !.userId = "u1", !.status = "pending", !.address = a,
                     !.assignedZone = z] :
      a \in FixAddresses, z \in StoredZones }

FixInit ==
  /\ users = [u \in Users |-> NewUser]
  /\ credits = [u \in Users |-> NewCredit]
  /\ \E n \in 1..MaxStored :
       \E rs \in [1..n -> StoredReports] :
         reports = [i \in 1..n |-> [rs[i] EXCEPT !.reportId = FirstReportId + i - 1]]
  /\ workerDone = 0
  /\ now = 0
  /\ pc = [p \in Procs |-> "idle"]
  /\ req = [p \in Procs |-> NoReq]
  /\ loc = [p \in Procs |-> NoLocals]
  /\ udoc = [p \in Procs |-> Doc(NoUser)]
  /\ cdoc = [p \in Procs |-> Doc(NoCredit)]
  /\ rdoc = [p \in Procs |-> Doc(NoReport)]
  /\ resp = [p \in Procs |-> NoResp]
  /\ nreq = [total |-> 0, failed |-> 0]

\* the backfill on reports stored with and without a zone
FixSpec == FixInit /\ [][FixNext]_vars

\* both users signed up and nothing was submitted yet
DemoInit == Init /\ \A u \in Users : credits[u] = NewCredit

DemoSpec == DemoInit /\ [][DemoNext]_vars

\* officers and workers act on the one report of a user
DeskSpec == DeskInit /\ [][DeskNext]_vars

\* requests that do not overlap, on an account close to its next badges
BadgeSpec == BadgeInit /\ [][SeqNext]_vars

\* =================================================================== claims
Earning == {"earned", "bonus"}

\* C1 (stated as claimed): after every ledger operation availableCredits <=
\* totalCredits, and a redemption goes on to its save only when the cost is
\* at most the available balance it loaded.
C1_LedgerInvariant ==
  /\ \A u \in Users : credits[u].exists =>
        credits[u].availableCredits <= credits[u].totalCredits
  /\ \A p \in Procs : pc[p] = "redeemSave" =>
        req[p].cost <= cdoc[p].orig.availableCredits

\* C2: a redeem whose cost exceeds the account's availableCredits answers
\* 'Insufficient credits' and changes nothing in the Credit collection.
C2_InsufficientRedeem ==
  [][\A p \in Procs, u \in Users, c \in Costs :
       (RedeemFind(p, u, c) /\ credits[u].exists /\ c > credits[u].availableCredits)
         => /\ resp'[p].error = "Insufficient credits"
            /\ ~resp'[p].success
            /\ pc'[p] = "idle"
            /\ credits' = credits]_vars

C2_Witness ==
  \E p \in Procs : /\ resp[p].kind = "redeem"
                   /\ resp[p].error = "Insufficient credits"
                   /\ credits[resp[p].user].exists

\* C3: the save of a successful redeem(cost) sets availableCredits to the
\* loaded balance minus cost (the stored balance minus cost when nothing was
\* written since the load), appends exactly one 'redeemed' transaction of
\* amount -cost, answers the new balance, and leaves totalCredits,
\* reportCount, reportsVerified and badges as stored.
C3_RedeemEffect ==
  [][\A p \in Procs : RedeemSave(p) =>
       LET u == req[p].user
           c == req[p].cost
       IN /\ credits'[u].availableCredits = cdoc[p].orig.availableCredits - c
          /\ (credits[u].availableCredits = cdoc[p].orig.availableCredits
                => credits'[u].availableCredits = credits[u].availableCredits - c)
          /\ credits'[u].transactions =
               Append(credits[u].transactions, Transaction("redeemed", 0 - c))
          /\ resp'[p].success
          /\ resp'[p].newBalance = credits'[u].availableCredits
          /\ credits'[u].totalCredits = credits[u].totalCredits
          /\ credits'[u].reportCount = credits[u].reportCount
          /\ credits'[u].reportsVerified = credits[u].reportsVerified
          /\ credits'[u].badges = credits[u].badges]_vars

C3_Witness ==
  \E p \in Procs :
    /\ resp[p].kind = "redeem" /\ resp[p].success
    /\ resp[p].newBalance = FIRST_REPORT - 20
    /\ credits[resp[p].user].availableCredits = FIRST_REPORT - 20
    /\ credits[resp[p].user].totalCredits = FIRST_REPORT

\* C4 (stated as claimed): in every stored state of an account the
\* transaction amounts sum to availableCredits and the earned and bonus
\* amounts sum to totalCredits, also after a persistence call has thrown.
C4_LedgerAudit ==
  \A u \in Users : credits[u].exists =>
    /\ SumAmounts(credits[u].transactions) = credits[u].availableCredits
    /\ SumAmounts(SelectTypes(credits[u].transactions, Earning)) = credits[u].totalCredits

\* C5: a submission's save writes the balances it computed from the account
\* it loaded, and answers success: when another submission of the same user
\* posted its award between this one's load and save, the stored
\* totalCredits and availableCredits afterwards hold this award only, that
\* is less than the two awards together.
C5_LostUpdate ==
  [][\A p \in Procs : SubmitSaveCredit(p) =>
       LET u == req[p].user
           award == loc[p].creditsEarned + loc[p].streakBonus
       IN /\ resp'[p].success
          /\ credits'[u].totalCredits = cdoc[p].orig.totalCredits + award
          /\ credits'[u].availableCredits = cdoc[p].orig.availableCredits + award
          /\ \A q \in Procs \ {p} :
               ( /\ resp[q].kind = "submit" /\ resp[q].success /\ resp[q].user = u
                 /\ credits[u].totalCredits =
                      cdoc[p].orig.totalCredits + resp[q].creditsEarned )
               => /\ credits'[u].totalCredits <
                       cdoc[p].orig.totalCredits + resp[q].creditsEarned + award
                  /\ credits'[u].availableCredits <
                       cdoc[p].orig.availableCredits + resp[q].creditsEarned + award]_vars

\* both submissions of one user answered success, the ledger lists both
\* awards, the balance holds one
C5_Witness ==
  \E p, q \in Procs :
    /\ p # q
    /\ resp[p].kind = "submit" /\ resp[p].success
    /\ resp[q].kind = "submit" /\ resp[q].success
    /\ resp[p].user = resp[q].user
    /\ credits[resp[p].user].reportCount = 1
    /\ credits[resp[p].user].totalCredits = FIRST_REPORT + resp[p].creditsEarned
    /\ credits[resp[p].user].totalCredits <
         FIRST_REPORT + resp[p].creditsEarned + resp[q].creditsEarned

Saved == {"submitFindUser", "submitSaveUser", "submitFindCredit", "submitSaveCredit"}

ReportsWithId(id) == { i \in 1..Len(reports) : reports[i].reportId = id }

\* C6: two submissions in flight that read the same maximum reportId and
\* have both saved their report have stored two reports with one reportId.
C6_DuplicateReportId ==
  \A p, q \in Procs :
    ( /\ p # q
      /\ pc[p] \in Saved /\ pc[q] \in Saved
      /\ loc[p].maxRead = loc[q].maxRead )
    => /\ loc[p].reportId = loc[q].reportId
       /\ Cardinality(ReportsWithId(loc[p].reportId)) >= 2

C6_Witness ==
  \E i, j \in 1..Len(reports) :
    /\ i < j
    /\ reports[i].reportId = reports[j].reportId
    /\ reports[i].userId # reports[j].userId

\* C7: when submissions do not overlap, the first stored report has reportId
\* 1001 and every later one the maximum reportId stored before it plus 1, so
\* the reportIds are pairwise distinct and increase in submission order.
C7_SequentialReportIds ==
  /\ \A i \in 1..Len(reports) :
       reports[i].reportId =
         IF i = 1 THEN 1001
         ELSE MaxOf({ reports[k].reportId : k \in 1..(i - 1) }) + 1
  /\ \A i, j \in 1..Len(reports) : i < j => reports[i].reportId < reports[j].reportId

C7_Witness ==
  /\ Len(reports) >= 3
  /\ \A p \in Procs : pc[p] = "idle"

\* the calendar day of an instant
Day(t) == t \div SlotsPerDay

\* the steps of a submission of user a by handler p
SubmitStepOf(p, a) ==
  \/ \E inp \in ReportInputs : SubmitFindLast(p, a, inp)
  \/ /\ req[p].user = a
     /\ \/ SubmitSaveReport(p) \/ SubmitFindUser(p) \/ SubmitSaveUser(p)
        \/ SubmitFindCredit(p) \/ SubmitSaveCredit(p) \/ SubmitFail(p)

\* what a submission of user a, running alone from the stored state, saves
\* and answers: the streak from a's user document, the award and the badges
\* from a's account
AloneUser(a, t) == UpdateStreak(users[a], t)

AloneBase(p) == BaseCredits(QualityScore(req[p].input))

AloneBonus(p, a) == StreakBonus(AloneBase(p), StreakMultiplier(users[a].currentStreak))

AloneAccount(p, a) == AwardSubmission(credits[a], AloneBase(p), AloneBonus(p, a))

IndependentOfOthers(p, a) ==
  /\ \A b \in Users \ {a} : users'[b] = users[b] /\ credits'[b] = credits[b]
  /\ SubmitSaveUser(p) => users'[a] = AloneUser(a, udoc[p].cur.lastReportDate)
  /\ SubmitSaveCredit(p) =>
       /\ credits'[a] = AloneAccount(p, a)
       /\ resp'[p].success
       /\ resp'[p].creditsEarned = AloneBase(p) + AloneBonus(p, a)
       /\ resp'[p].streak = users[a].currentStreak
       /\ resp'[p].longestStreak = users[a].longestStreak
       /\ resp'[p].newBadges = Pushed(credits[a].badges, credits'[a].badges)

SameIdAsAlone(p) ==
  SubmitSaveReport(p) => loc[p].reportId = NextReportId(LastReportId)

\* C8 (amended): when only submissions of different users overlap, every step
\* of a submission by user A leaves the user document and the credit account
\* of every other user unchanged, and A's streak, credits and badges, stored
\* and answered, are those of A's submission running alone.
C8_IndependentUsers ==
  [][\A p \in Procs, a \in Users : SubmitStepOf(p, a) => IndependentOfOthers(p, a)]_vars

\* C8 (stated as claimed): as above, and the report id is the one A's
\* submission gets running alone.
C8_IndependentWithReportId ==
  [][\A p \in Procs, a \in Users :
       SubmitStepOf(p, a) => IndependentOfOthers(p, a) /\ SameIdAsAlone(p)]_vars

\* submissions of two users overlapped (they share a report id) and both
\* answered success
C8_Witness ==
  /\ resp[1].kind = "submit" /\ resp[1].success
  /\ resp[2].kind = "submit" /\ resp[2].success
  /\ resp[1].user # resp[2].user
  /\ resp[1].reportId = resp[2].reportId

\* C9: the save of the streak update stores streak 1 when the loaded user has
\* no lastReportDate, the loaded streak + 1 when the submission's calendar day
\* is the day after lastReportDate's, and 1 when it is a later day.
C9_StreakUpdate ==
  [][\A p \in Procs : SubmitSaveUser(p) =>
       LET u == req[p].user
           prior == udoc[p].orig
           t == udoc[p].cur.lastReportDate
       IN /\ prior.lastReportDate = NoDate => users'[u].currentStreak = 1
          /\ (prior.lastReportDate # NoDate /\ Day(t) = Day(prior.lastReportDate) + 1)
               => users'[u].currentStreak = prior.currentStreak + 1
          /\ (prior.lastReportDate # NoDate /\ Day(t) > Day(prior.lastReportDate) + 1)
               => users'[u].currentStreak = 1]_vars

\* a continued streak, the earlier report late in its day
C9_Witness ==
  \E u \in Users :
    /\ users[u].currentStreak = 2
    /\ Day(users[u].lastReportDate) = 1
    /\ \E p \in Procs : resp[p].kind = "submit" /\ resp[p].success /\ resp[p].streak = 2

\* C10: the save of a submission made on the calendar day of lastReportDate
\* leaves the stored currentStreak as it is.
C10_SameDay ==
  [][\A p \in Procs : SubmitSaveUser(p) =>
       LET u == req[p].user
           prior == udoc[p].orig
           t == udoc[p].cur.lastReportDate
       IN (prior.lastReportDate # NoDate /\ Day(t) = Day(prior.lastReportDate))
            => users'[u].currentStreak = users[u].currentStreak]_vars

\* three accepted submissions of one user on one day, the streak still 1
C10_Witness ==
  \E u \in Users :
    /\ credits[u].reportCount = 3
    /\ users[u].currentStreak = 1
    /\ Day(now) = 0

Max(a, b) == IF a >= b THEN a ELSE b

\* C11: when submissions do not overlap, the save of a streak update stores
\* longestStreak = max(longestStreak stored before, currentStreak stored
\* after), so longestStreak does not decrease, and in every state
\* currentStreak <= longestStreak.
C11_LongestStreak ==
  /\ [](\A u \in Users : users[u].currentStreak <= users[u].longestStreak)
  /\ [][\A p \in Procs : SubmitSaveUser(p) =>
          LET u == req[p].user
          IN /\ users'[u].longestStreak =
                  Max(users[u].longestStreak, users'[u].currentStreak)
             /\ users'[u].longestStreak >= users[u].longestStreak]_vars

\* a streak of SeedStreak days broken by a gap: currentStreak 1, longestStreak kept
C11_Witness ==
  \E p \in Procs :
    /\ resp[p].kind = "submit" /\ resp[p].success
    /\ resp[p].streak = 1 /\ resp[p].longestStreak = SeedStreak
    /\ users[resp[p].user].currentStreak = 1
    /\ users[resp[p].user].longestStreak = SeedStreak

\* C12: when submissions do not overlap, a submission that passed validation,
\* saved its report and found its user sets lastReportDate on the loaded
\* document to the instant of the update, whatever the streak branch, and its
\* save stores that instant; a submission rejected at validation leaves every
\* user document as it is.
C12_LastReportDate ==
  [][\A p \in Procs :
       /\ (SubmitFindUser(p) /\ users[req[p].user].exists)
            => udoc'[p].cur.lastReportDate = now
       /\ SubmitSaveUser(p)
            => /\ users'[req[p].user].lastReportDate = udoc[p].cur.lastReportDate
               /\ users'[req[p].user].lastReportDate = now
       /\ \A u \in Users, inp \in ReportInputs :
            (SubmitFindLast(p, u, inp) /\ inp.trimLen < MinDescription)
              => users' = users]_vars

\* the same-day branch: the streak is as seeded, lastReportDate moved on
C12_Witness ==
  \E p \in Procs :
    /\ resp[p].kind = "submit" /\ resp[p].success
    /\ resp[p].streak = SeedStreak
    /\ users[resp[p].user].currentStreak = SeedStreak
    /\ users[resp[p].user].lastReportDate = 1
    /\ Day(1) = Day(0)

\* the multipliers the specification lists for the streaks 1, 2, 3, 6, 7, 10
ListedMultipliers == (1 :> 1) @@ (2 :> 1) @@ (3 :> 2) @@ (6 :> 2) @@ (7 :> 3) @@ (10 :> 3)

\* the handler's function on the listed streaks
ListedMultipliersHold ==
  \A s \in DOMAIN ListedMultipliers : StreakMultiplier(s) = ListedMultipliers[s]

\* C13: the multiplier a handler holds after its streak update, and the one a
\* successful submission answers, is 3 when the resulting streak is >= 7, 2
\* when it is 3..6 and 1 otherwise; for the listed streaks the handler's
\* function gives the listed multipliers.
C13_Multiplier ==
  /\ ListedMultipliersHold
  /\ \A p \in Procs :
       /\ pc[p] \in {"submitFindCredit", "submitSaveCredit"} =>
            loc[p].streakMultiplier =
              (CASE udoc[p].cur.currentStreak >= 7 -> 3
                 [] udoc[p].cur.currentStreak \in 3..6 -> 2
                 [] OTHER -> 1)
       /\ (resp[p].kind = "submit" /\ resp[p].success) =>
            resp[p].streakMultiplier =
              (CASE resp[p].streak >= 7 -> 3
                 [] resp[p].streak \in 3..6 -> 2
                 [] OTHER -> 1)

\* the seeded streak continued on the next day: streak 7 answered with multiplier 3
C13_Witness ==
  \E p \in Procs :
    /\ resp[p].kind = "submit" /\ resp[p].success
    /\ resp[p].streak = 7 /\ resp[p].streakMultiplier = 3

\* C14: the save of a successful submission answers streakBonus =
\* baseCredits * (multiplier - 1) and appends to the stored transactions one
\* 'earned' entry of the base credits, followed by one 'bonus' entry of the
\* streak bonus exactly when the bonus is > 0: one entry at multiplier 1, two
\* at multiplier 2 or 3.
C14_BonusPosting ==
  [][\A p \in Procs : SubmitSaveCredit(p) =>
       LET u == req[p].user
           base == resp'[p].baseCredits
           mult == resp'[p].streakMultiplier
           bonus == resp'[p].streakBonus
           added == Pushed(credits[u].transactions, credits'[u].transactions)
       IN /\ resp'[p].success
          /\ bonus = base * (mult - 1)
          /\ resp'[p].creditsEarned = base + bonus
          /\ credits'[u].transactions = credits[u].transactions \o added
          /\ mult = 1 => added = << Transaction("earned", base) >>
          /\ mult \in {2, 3} =>
               added = << Transaction("earned", base), Transaction("bonus", bonus) >>
          /\ Len(added) = (IF bonus > 0 THEN 2 ELSE 1)]_vars

\* the seeded streak goes from 6 to 7: the bonus is twice the base, two entries
C14_Witness ==
  \E p \in Procs :
    /\ resp[p].kind = "submit" /\ resp[p].success
    /\ resp[p].streak = 7
    /\ resp[p].streakBonus = 2 * resp[p].baseCredits
    /\ Pushed(SeedCredit.transactions, credits[resp[p].user].transactions) =
         << Transaction("earned", resp[p].baseCredits),
            Transaction("bonus", 2 * resp[p].baseCredits) >>

InFlight ==
  {"submitSaveReport", "submitFindUser", "submitSaveUser", "submitFindCredit",
   "submitSaveCredit"}

Points(present, n) == IF present THEN n ELSE 0

\* every request body: the description absent, short, at the threshold length
\* or longer, each optional field present or not
AllInputs ==
  { Input(len, len, ph, co, ca, me) :
      len \in {0, 10, 20, 21, 40}, ph \in BOOLEAN, co \in BOOLEAN, ca \in BOOLEAN, me \in BOOLEAN }

AllFive(inp) == inp.photo /\ inp.coords /\ inp.descLen > 20 /\ inp.category /\ inp.method

\* the handler's score on every request body
ScoreOfAllInputs ==
  \A inp \in AllInputs :
    /\ QualityScore(inp) = Points(inp.photo, 30) + Points(inp.coords, 30)
                           + Points(inp.descLen > 20, 20)
                           + Points(inp.category, 10) + Points(inp.method, 10)
    /\ QualityScore(inp) \in 0..100
    /\ QualityScore(inp) = 100 <=> AllFive(inp)

\* C16: the quality score is 30 for a photo + 30 for both coordinates + 20 for
\* a description longer than 20 characters + 10 for a waste category + 10 for a
\* disposal method; it lies in 0..100 and is 100 exactly when all five hold,
\* for every request body and for every submission in flight or answered.
C16_QualityScore ==
  /\ ScoreOfAllInputs
  /\ \A p \in Procs : pc[p] \in InFlight =>
       /\ loc[p].qualityScore =
            Points(req[p].input.photo, 30) + Points(req[p].input.coords, 30)
            + Points(req[p].input.descLen > 20, 20)
            + Points(req[p].input.category, 10) + Points(req[p].input.method, 10)
       /\ loc[p].qualityScore = 100 <=> AllFive(req[p].input)
  /\ \A i \in 1..Len(reports) : reports[i].qualityScore \in 0..100
  /\ \A p \in Procs : resp[p].qualityScore \in 0..100

\* a description of exactly 20 characters earns no length bonus (70), a longer
\* one with every field present earns 100
C16_Witness ==
  \E i, j \in 1..Len(reports) :
    /\ reports[i].qualityScore = 70
    /\ reports[j].qualityScore = 100
    /\ \E p \in Procs : resp[p].kind = "submit" /\ resp[p].success
                         /\ resp[p].qualityScore \in {70, 100}

\* C17: a submission with no description, or one of fewer than 10 characters
\* after trimming, is answered with the validation error at once: no report
\* is stored, the next report id is as before, no handler is left in flight
\* for it, and every user document and credit account is unchanged.
C17_ValidationRejects ==
  [][\A p \in Procs, u \in Users, inp \in ReportInputs :
       (SubmitFindLast(p, u, inp) /\ (inp.descLen = 0 \/ inp.trimLen < 10))
         => /\ resp'[p].sent /\ ~resp'[p].success
            /\ resp'[p].error = "Description must be at least 10 characters"
            /\ pc'[p] = "idle"
            /\ reports' = reports
            /\ NextReportId(LastReportId)' = NextReportId(LastReportId)
            /\ users' = users
            /\ credits' = credits]_vars

\* a description that is long enough only with its padding, sent by the
\* seeded user, is rejected and nothing is stored
C17_Witness ==
  \E p \in Procs :
    /\ resp[p].kind = "submit"
    /\ resp[p].error = "Description must be at least 10 characters"
    /\ users[resp[p].user] = SeedUser
    /\ credits[resp[p].user] = SeedCredit
    /\ reports = <<>>
    /\ \A q \in Procs : pc[q] = "idle"

\* C18: a submission that finds no user record, or no credit account, for
\* its user is answered with an error and is over: no handler is left in
\* flight for it, and no account's balances, transactions, reportCount or
\* badges change in that step or are held for a later save.
C18_MissingAccount ==
  [][\A p \in Procs :
       ( \/ SubmitFindUser(p) /\ ~users[req[p].user].exists
         \/ SubmitFindCredit(p) /\ ~credits[req[p].user].exists )
       => /\ resp'[p].sent /\ ~resp'[p].success /\ resp'[p].error # ""
          /\ pc[p] = "submitFindCredit" => resp'[p].error = "Credit account not found"
          /\ pc'[p] = "idle"
          /\ cdoc'[p] = Doc(NoCredit)
          /\ credits' = credits]_vars

\* a user whose signup stored the user but not the account submits: the
\* report and the streak are stored, the error is answered, no account exists
C18_Witness ==
  \E p \in Procs :
    /\ resp[p].kind = "submit"
    /\ resp[p].error = "Credit account not found"
    /\ users[resp[p].user].exists
    /\ users[resp[p].user].currentStreak = 1
    /\ ~credits[resp[p].user].exists
    /\ \A u \in Users : credits[u] = NoCredit

\* the submission of handler p ends in an error after its report was saved
FailsAfterReport(p) ==
  \/ SubmitFail(p) /\ pc[p] \in Saved
  \/ SubmitFindUser(p) /\ ~users[req[p].user].exists
  \/ SubmitFindCredit(p) /\ ~credits[req[p].user].exists

\* C19: when submissions do not overlap, a submission that fails after its
\* report was saved answers an error and changes nothing more: its report is
\* still stored with status 'pending', and when the failure comes after the
\* save of the streak update, the user document holds the new streak and
\* lastReportDate while the account has no posting for the report.
C19_PartialFailure ==
  [][\A p \in Procs : FailsAfterReport(p) =>
       LET u == req[p].user IN
       /\ resp'[p].sent /\ ~resp'[p].success /\ resp'[p].error # ""
       /\ pc'[p] = "idle"
       /\ db' = db
       /\ \E i \in 1..Len(reports') :
            /\ reports'[i].userId = u
            /\ reports'[i].reportId = loc[p].reportId
            /\ reports'[i].status = "pending"
       /\ pc[p] \in {"submitFindCredit", "submitSaveCredit"} =>
            /\ users'[u] = udoc[p].cur
            /\ users'[u].lastReportDate = now
            /\ pc[p] = "submitSaveCredit" => credits'[u] = cdoc[p].orig]_vars

\* the save of the account threw: error answered, the report pending, the
\* streak and lastReportDate stored, the account as at signup
C19_Witness ==
  \E p \in Procs :
    /\ resp[p].kind = "submit" /\ resp[p].error = "Failed to submit report"
    /\ Len(reports) = 1
    /\ reports[1].userId = resp[p].user /\ reports[1].status = "pending"
    /\ users[resp[p].user].currentStreak = 1
    /\ users[resp[p].user].lastReportDate # NoDate
    /\ credits[resp[p].user] = NewCredit

\* a step of a submission by handler p
SubmitStep(p) == \E a \in Users : SubmitStepOf(p, a)

\* the answer is an error and nothing else
ErrorOnly(r) ==
  /\ ~r.success /\ r.error # ""
  /\ r = [ErrorResp(r.error) EXCEPT !.kind = r.kind, !.user = r.user]

\* the answer is a success result with every field of the result
CompleteResult(r) ==
  /\ r.success /\ r.error = ""
  /\ r.reportId >= 1001
  /\ r.baseCredits \in {10, 40}
  /\ r.streakMultiplier \in 1..3
  /\ r.creditsEarned = r.baseCredits + r.streakBonus
  /\ r.streak >= 1 /\ r.longestStreak >= r.streak
  /\ r.qualityScore \in 0..100

\* the next persistence call of the submission of handler p returns
Proceeds(p) ==
  \/ SubmitSaveReport(p) \/ SubmitFindUser(p) \/ SubmitSaveUser(p)
  \/ SubmitFindCredit(p) \/ SubmitSaveCredit(p)

\* C20: a submission in flight has not been answered and can always take its
\* next step; each of its steps
\* either goes on without answering, or answers once and ends the handler,
\* with an error and nothing else or with a complete success result. The
\* report is inserted with status 'pending', and success is answered only by
\* the step that saves the account, when the report is stored and a streak
\* update of the user is stored.
C20_OneResponse ==
  /\ [](\A p \in Procs : pc[p] \in InFlight => ~resp[p].sent /\ ENABLED Proceeds(p))
  /\ [][\A p \in Procs :
          /\ SubmitStep(p) =>
               \/ pc'[p] \in InFlight /\ ~resp'[p].sent
               \/ /\ pc'[p] = "idle" /\ resp'[p].sent /\ resp'[p].kind = "submit"
                  /\ ErrorOnly(resp'[p]) \/ CompleteResult(resp'[p])
                  /\ resp'[p].success =>
                       /\ SubmitSaveCredit(p)
                       /\ \E i \in 1..Len(reports') :
                            /\ reports'[i].userId = resp'[p].user
                            /\ reports'[i].reportId = resp'[p].reportId
                       /\ users'[resp'[p].user].lastReportDate # NoDate
                       /\ users'[resp'[p].user].currentStreak >= 1
                       /\ Pushed(cdoc[p].orig.transactions, cdoc[p].cur.transactions) # <<>>
                       /\ credits'[resp'[p].user].transactions =
                            credits[resp'[p].user].transactions
                              \o Pushed(cdoc[p].orig.transactions, cdoc[p].cur.transactions)
          /\ SubmitSaveReport(p) =>
               /\ Len(reports') = Len(reports) + 1
               /\ reports'[Len(reports')].status = "pending"
               /\ reports'[Len(reports')].reportId = loc[p].reportId]_vars

\* a success result, with the report pending, the streak and the account stored
C20_Witness ==
  \E p \in Procs :
    /\ resp[p].kind = "submit" /\ CompleteResult(resp[p])
    /\ resp[p].newBadges = << "first_report" >>
    /\ \E i \in 1..Len(reports) :
         /\ reports[i].userId = resp[p].user
         /\ reports[i].reportId = resp[p].reportId
         /\ reports[i].status = "pending"
    /\ users[resp[p].user].currentStreak = resp[p].streak
    /\ credits[resp[p].user].reportCount = 1
    /\ credits[resp[p].user].badges = << "first_report" >>
    /\ credits[resp[p].user].totalCredits = FIRST_REPORT + resp[p].creditsEarned

\* the five configured zone names
ZoneNames ==
  { "Zone 1 - North Gonda", "Zone 2 - South Gonda", "Zone 3 - East Gonda",
    "Zone 4 - West Gonda", "Zone 5 - Central Gonda" }

\* addresses with the zone of their first keyword in the order Zone 1..Zone 5
ZoneOfAddress ==
  <<
     << << "S", "t", "a", "t", "i", "o", "n", " ", "R", "o", "a", "d" >>,
        "Zone 1 - North Gonda" >>,
     << << "K", "A", "T", "R", "A" >>,
        "Zone 2 - South Gonda" >>,
     << << "W", "a", "z", "i", "r", "g", "a", "n", "j" >>,
        "Zone 3 - East Gonda" >>,
     << << "N", "a", "w", "a", "b", "g", "a", "n", "j", " ", "W", "e", "s", "t" >>,
        "Zone 4 - West Gonda" >>,
     << << "O", "l", "d", " ", "C", "i", "t", "y" >>,
        "Zone 5 - Central Gonda" >>,
     << << "S", "o", "u", "t", "h", " ", "S", "t", "a", "t", "i", "o", "n" >>,
        "Zone 1 - North Gonda" >>,
     << << "N", "o", "r", "t", "h", "e", "a", "s", "t" >>,
        "Zone 1 - North Gonda" >> >>

SouthStation == << "S", "o", "u", "t", "h", " ", "S", "t", "a", "t", "i", "o", "n" >>

\* the zones that have a keyword occurring in the lower-cased address
ZonesIn(address) ==
  { z \in 1..Len(ZONE_CONFIG) :
      \E k \in 1..Len(ZONE_CONFIG[z].keywords) :
        includes(toLowerCase(address), ZONE_CONFIG[z].keywords[k]) }

\* the address classification on the addresses sent
AddressClassification ==
  /\ \A i \in 1..Len(ZoneOfAddress) :
       /\ ZoneOfAddress[i][1] \in Addresses
       /\ detectZone(ZoneOfAddress[i][1]) = ZoneOfAddress[i][2]
  /\ \A a \in Addresses \ { << >> } :
       ZonesIn(a) # {} =>
         \E z \in ZonesIn(a) :
           /\ \A y \in ZonesIn(a) : z <= y
           /\ detectZone(a) = ZONE_CONFIG[z].name
  /\ ZONE_CONFIG[1].name = "Zone 1 - North Gonda"
  /\ ZONE_CONFIG[5].name = "Zone 5 - Central Gonda"

\* C21: an address is classified, whatever its letter case, as the first zone
\* in the order Zone 1..Zone 5 that has a keyword occurring in it, an address
\* with keywords of two zones as the earlier zone; the zone a submission with
\* an address holds, stores and answers is this function of its address.
C21_AddressZone ==
  /\ AddressClassification
  /\ \A p \in Procs :
       (pc[p] \in InFlight /\ req[p].input.address # << >>) =>
         /\ loc[p].assignedZone = detectZone(req[p].input.address)
         /\ \A i \in 1..Len(ZoneOfAddress) :
              req[p].input.address = ZoneOfAddress[i][1] =>
                loc[p].assignedZone = ZoneOfAddress[i][2]
         /\ pc[p] \in Saved =>
              \E i \in 1..Len(reports) :
                /\ reports[i].reportId = loc[p].reportId
                /\ reports[i].assignedZone = loc[p].assignedZone

\* 'South Station' has keywords of Zone 2 and of Zone 1: stored as Zone 1
C21_Witness ==
  \E p \in Procs :
    /\ pc[p] \in Saved
    /\ req[p].input.address = SouthStation
    /\ Len(reports) = 1
    /\ reports[1].assignedZone = "Zone 1 - North Gonda"

\* the coordinates are two numbers other than 0
Numeric(lat, lng) ==
  /\ lat.given /\ lat.numeral /\ lat.value # 0
  /\ lng.given /\ lng.numeral /\ lng.value # 0

\* C22 (stated as claimed): a submission with a non-empty address that has no
\* zone keyword, and with coordinates, holds the zone of the coordinate rules.
C22_FallThrough ==
  \A p \in Procs :
    LET inp == req[p].input IN
    ( /\ pc[p] \in InFlight
      /\ inp.address # << >> /\ ZonesIn(inp.address) = {}
      /\ Numeric(inp.lat, inp.lng) )
    => loc[p].assignedZone =
         detectZoneFromCoordinates(parseFloat(inp.lat), parseFloat(inp.lng))

\* the zone of a point by the threshold rules, in hundredths of a degree
ZoneByRules(latitude, longitude) ==
  CASE latitude > 2715 -> "Zone 1 - North Gonda"
    [] latitude <= 2715 /\ latitude < 2710 -> "Zone 2 - South Gonda"
    [] latitude \in 2710..2715 /\ longitude > 8198 -> "Zone 3 - East Gonda"
    [] latitude \in 2710..2715 /\ longitude <= 8198 /\ longitude < 8195 -> "Zone 4 - West Gonda"
    [] OTHER -> "Zone 5 - Central Gonda"

\* C23 (stated as claimed): a submission with no address and two numeric
\* coordinates holds the zone of the threshold rules taken in the order north,
\* south, east, west, and the central zone when no rule matches.
C23_CoordinateRules ==
  \A p \in Procs :
    LET inp == req[p].input IN
    ( /\ pc[p] \in InFlight
      /\ inp.address = << >>
      /\ inp.lat.given /\ inp.lat.numeral /\ inp.lng.given /\ inp.lng.numeral )
    => loc[p].assignedZone = ZoneByRules(inp.lat.value, inp.lng.value)

MalformedLat(c) == c.given /\ (~c.numeral \/ c.value < 0 - 9000 \/ c.value > 9000)

\* the coordinate is no number, or lies outside the range of a longitude
MalformedLng(c) == c.given /\ (~c.numeral \/ c.value < 0 - 18000 \/ c.value > 18000)

\* C25 (stated as claimed): a submission with no address and a coordinate
\* that is no number or is out of range holds the default zone.
C25_MalformedCoordinates ==
  \A p \in Procs :
    LET inp == req[p].input IN
    ( /\ pc[p] \in InFlight
      /\ inp.address = << >>
      /\ MalformedLat(inp.lat) \/ MalformedLng(inp.lng) )
    => loc[p].assignedZone = "Zone 5 - Central Gonda"

\* no key occurs twice in the badge list
NoDuplicateKeys(badges) ==
  \A i, j \in 1..Len(badges) : badges[i] = badges[j] => i = j

\* the keys a badge evaluation of the account unlocks
Unlocks(acc) == Pushed(acc.badges, EvalBadges(acc, 1).badges)

\* C26: after any sequence of report submissions no stored badge list holds a
\* key twice, and a badge evaluation that follows the evaluation of a
\* submission with no counter change in between unlocks nothing.
C26_BadgesIdempotent ==
  /\ \A u \in Users : NoDuplicateKeys(credits[u].badges)
  /\ \A p \in Procs :
       pc[p] = "submitSaveCredit" =>
         /\ NoDuplicateKeys(cdoc[p].cur.badges)
         /\ Unlocks(cdoc[p].cur) = << >>

\* the keys of the catalog entries the account does not hold and whose counter
\* has reached the threshold, in catalog order
DueBadges(acc) ==
  LET Due(b) == ~HasBadge(acc.badges, b.key) /\ CounterOf(acc, b) >= b.threshold
      due == SelectSeq(BADGE_CRITERIA, Due)
  IN [i \in 1..Len(due) |-> due[i].key]

\* the counters of the account after the base and bonus credits of the
\* submission of p are added
Posted(acc, p) ==
  [acc EXCEPT !.totalCredits = @ + loc[p].creditsEarned + loc[p].streakBonus,
              !.reportCount = @ + 1]

AllDueHeld(acc) ==
  \A i \in 1..Len(BADGE_CRITERIA) :
    CounterOf(acc, BADGE_CRITERIA[i]) >= BADGE_CRITERIA[i].threshold =>
      HasBadge(acc.badges, BADGE_CRITERIA[i].key)

\* C28: after every operation that changes totalCredits or reportCount of an
\* account (submission award, verification bonus, resolution bonus), every
\* catalog badge whose counter is >= its threshold is in the badge list.
C28_EvaluatedAfterMutation ==
  [][\A u \in Users :
       (\/ credits'[u].totalCredits # credits[u].totalCredits
        \/ credits'[u].reportCount # credits[u].reportCount)
         => AllDueHeld(credits'[u])]_vars

\* C29: signup creates the credit account of the user in its initial state:
\* totalCredits = availableCredits = 50, one transaction of type 'bonus' and
\* amount 50 as the first ledger entry, no badges, reportCount 0; no other
\* operation creates an account.
C29_SignupAccount ==
  [][/\ \A p \in Procs :
          SignupSaveCredit(p) =>
            LET acc == credits'[req[p].user]
            IN /\ acc.exists /\ ~credits[req[p].user].exists
               /\ acc.totalCredits = 50 /\ acc.availableCredits = 50
               /\ acc.transactions = << [type |-> "bonus", amount |-> 50] >>
               /\ acc.badges = << >>
               /\ acc.reportCount = 0
               /\ resp'[p].success
     /\ \A u \in Users :
          (~credits[u].exists /\ credits'[u].exists) =>
            \E p \in Procs : req[p].user = u /\ SignupSaveCredit(p)]_vars

\* a signup has answered success and the account is the initial one
C29_Witness ==
  \E p \in Procs :
    /\ resp[p].kind = "signup" /\ resp[p].success
    /\ users[resp[p].user].exists
    /\ credits[resp[p].user].exists
    /\ credits[resp[p].user].totalCredits = 50
    /\ Len(credits[resp[p].user].transactions) = 1

\* no request is in flight
Quiescent == \A p \in Procs : pc[p] = "idle"

\* C30: each user has one credit account and each account one existing user,
\* also when a persistence call during signup fails (stated for the states
\* with no request in flight: between the two saves of a signup the user is
\* stored and the account is not yet).
C30_OneAccountPerUser ==
  Quiescent => \A u \in Users : users[u].exists <=> credits[u].exists

\* C31: totalCredits of an account never decreases: no step of a signup, a
\* submission, a verification or resolution bonus or a redemption lowers it.
C31_TotalMonotonic ==
  [][\A u \in Users : credits'[u].totalCredits >= credits[u].totalCredits]_vars

\* C33: every report submission terminates: when each persistence call
\* eventually succeeds or fails, a handler that is in flight reaches its
\* response, and a handler is never left with no step to take.
C33_Terminates ==
  \A p \in Procs :
    (pc[p] \in InFlight) ~> (pc[p] = "idle" /\ resp[p].sent /\ resp[p].kind = "submit")

\* a submission in flight while another has been answered with the caught failure
C33_Witness ==
  \E p, q \in Procs :
    /\ pc[p] \in InFlight
    /\ resp[q].kind = "submit" /\ resp[q].error = "Failed to submit report"

\* the reports of user u that are stored
ReportsOf(u) == { i \in 1..Len(reports) : reports[i].userId = u }

\* C34: the verification bonus, with its reportsVerified increment, is
\* credited at most once per report over any sequence of status changes made
\* through POST /api/admin/reports/:id/status (before any completion by a
\* worker, every reportsVerified increment is a verification).
C34_VerifiedOnce ==
  \A u \in Users :
    workerDone = 0 => credits[u].reportsVerified <= Cardinality(ReportsOf(u))

\* C35: the resolution bonus and its counters are applied at most once per
\* report, and only by the worker to whom the report is assigned while it is
\* 'in-progress'.
C35_ResolvedOnce ==
  /\ [](workerDone <= Len(reports))
  /\ [][\A p \in Procs :
          (WorkerUpdateStats(p) \/ WorkerSaveCredit(p)) =>
             /\ rdoc[p].orig.status = "in-progress"
             /\ rdoc[p].orig.assignedTo = req[p].worker]_vars

\* C36: the success result of a submission agrees with the ledger:
\* creditsEarned = baseCredits + streakBonus, which is the increase of both
\* totalCredits and availableCredits of the submitter's account and the sum
\* of the transactions this submission appends; reportCount grows by 1.
C36_ResultMatchesLedger ==
  [][\A p \in Procs :
       SubmitSaveCredit(p) =>
         LET r == resp'[p]
             old == credits[req[p].user]
             new == credits'[req[p].user]
         IN /\ r.success /\ r.kind = "submit"
            /\ r.creditsEarned = r.baseCredits + r.streakBonus
            /\ new.totalCredits - old.totalCredits = r.creditsEarned
            /\ new.availableCredits - old.availableCredits = r.creditsEarned
            /\ SumAmounts(Pushed(old.transactions, new.transactions)) = r.creditsEarned
            /\ new.reportCount = old.reportCount + 1]_vars

\* a success result with a streak bonus, both entries on the ledger
C36_Witness ==
  \E p \in Procs :
    /\ resp[p].kind = "submit" /\ resp[p].success
    /\ resp[p].streakBonus > 0
    /\ resp[p].creditsEarned = resp[p].baseCredits + resp[p].streakBonus
    /\ LET txs == credits[resp[p].user].transactions
       IN /\ Len(txs) >= 2
          /\ txs[Len(txs) - 1] = Transaction("earned", resp[p].baseCredits)
          /\ txs[Len(txs)] = Transaction("bonus", resp[p].streakBonus)

\* C37: reportCount of an account never exceeds the number of stored reports
\* of its user, and equals it when no request is in flight and every
\* submission of the user completed (requests do not overlap here).
C37_ReportCountMatches ==
  \A u \in Users :
    /\ credits[u].reportCount <= Cardinality(ReportsOf(u))
    /\ (Quiescent /\ nreq.failed = 0) =>
          credits[u].reportCount = Cardinality(ReportsOf(u))

\* an officer with assigned zones
ZoneOfficer(a) == a.role = "zone_officer" /\ a.assignedZones # {}

\* C32: the listing and the statistics answered to a zone officer with
\* assigned zones hold only reports whose assignedZone is one of the officer's
\* zones: the listing is the stored reports of those zones, the statistics
\* count and name only them.
C32_OfficerSeesOwnZones ==
  [][\A p \in Procs :
       /\ (AdminListReports(p) /\ ZoneOfficer(req[p].admin)) =>
            LET zones == req[p].admin.assignedZones
                listed == resp'[p].listed
            IN /\ \A i \in 1..Len(listed) : listed[i].assignedZone \in zones
               /\ Len(listed) =
                    Cardinality({ i \in 1..Len(reports) : reports[i].assignedZone \in zones })
       /\ (AdminStatsCount(p) /\ ZoneOfficer(req[p].admin)) =>
            loc'[p].maxRead =
              Cardinality({ i \in 1..Len(reports) :
                              reports[i].assignedZone \in req[p].admin.assignedZones })
       /\ (AdminStatsZones(p) /\ ZoneOfficer(req[p].admin)) =>
            /\ resp'[p].zoneStats \subseteq req[p].admin.assignedZones
            /\ resp'[p].totalReports <= Len(reports)]_vars

\* an officer of Zones 1 and 2 is answered a listing of one report while a
\* report of Zone 5 is stored
C32_Witness ==
  \E p \in Procs :
    /\ resp[p].kind = "list" /\ resp[p].success
    /\ Len(resp[p].listed) = 1
    /\ resp[p].listed[1].assignedZone = "Zone 1 - North Gonda"
    /\ \E i \in 1..Len(reports) : reports[i].assignedZone = "Zone 5 - Central Gonda"

\* C40: GET /api/credits changes no stored state, lists as nextBadges exactly
\* the catalog badges the account does not hold, in catalog order, each with
\* the progress min(100, 100 * counter / threshold), which lies in 0..100.
C40_CreditsView ==
  [][\A p \in Procs, u \in Users :
       CreditsView(p, u) =>
         /\ UNCHANGED << users, credits, reports, workerDone >>
         /\ credits[u].exists =>
              LET acc == credits[u]
                  next == resp'[p].nextBadges
                  Held(i) == \E k \in 1..Len(acc.badges) : acc.badges[k] = BADGE_CRITERIA[i].key
                  open == { i \in 1..Len(BADGE_CRITERIA) : ~Held(i) }
              IN /\ Len(next) = Cardinality(open)
                 /\ \A j \in 1..Len(next) :
                      \E i \in open :
                        /\ next[j].key = BADGE_CRITERIA[i].key
                        /\ j = Cardinality({ h \in open : h <= i })
                        /\ LET counter == IF BADGE_CRITERIA[i].field = "reportCount"
                                            THEN acc.reportCount ELSE acc.totalCredits
                               threshold == BADGE_CRITERIA[i].threshold
                           IN /\ (100 * counter) % threshold = 0
                              /\ next[j].progress =
                                   (IF 100 * counter >= 100 * threshold
                                      THEN 100 ELSE (100 * counter) \div threshold)
                              /\ next[j].progress \in 0..100]_vars

\* the view of an account over 500 credits that does not hold 'credit_collector'
C40_Witness ==
  \E p \in Procs :
    /\ resp[p].kind = "credits" /\ resp[p].success
    /\ Len(resp[p].nextBadges) = 5
    /\ resp[p].nextBadges[1] = [key |-> "eco_warrior", progress |-> 90]
    /\ resp[p].nextBadges[4] = [key |-> "credit_collector", progress |-> 100]

\* C38 (stated as claimed): the backfill gives every report that has an
\* address the zone detectZone returns for that address, and the script and
\* the route give the same zone for every address.
C38_BackfillAsDetectZone ==
  [][\A p \in Procs :
       FixSave(p) =>
         LET fixed == Head(loc[p].todo)
         IN fixed.doc.address # << >> =>
              /\ reports'[fixed.ix].assignedZone = detectZone(fixed.doc.address)
              /\ FixZone("script", fixed.doc.address) = FixZone("route", fixed.doc.address)]_vars

TypeOK ==
  /\ now \in 0..MaxNow
  /\ nreq.total \in 0..MaxRequests
  /\ nreq.failed \in 0..MaxFailures
  /\ \A u \in Users : credits[u].exists => users[u].exists

====
